---- MODULE Spec2Model ----
(***************************************************************************)
(* A model of the plug-ins of ayon-maya: publish, create, load, inventory. *)
(*                                                                         *)
(* The plug-ins are run-to-completion handlers over the Maya scene and the *)
(* pyblish context, so every handler is one action.  The scene, the        *)
(* context and what the last call produced (its log, its return value,     *)
(* whether it raised) are the state.                                       *)
(*                                                                         *)
(* Python strings are sequences of one-character strings, a Python dict    *)
(* is the sequence of its <<key, value>> items in insertion order, and a   *)
(* Python list is a sequence.                                              *)
(***************************************************************************)
EXTENDS Naturals, Sequences, FiniteSets, TLC

VARIABLES
    cbId,          \* scene: node -> value of its cbId attribute (0: none/empty)
    context,       \* pyblish context: the sequence of its instances
    lastPublish,   \* database and disk: the last published version of the product
    op,            \* the last call made
    inst,          \* the index in the context of the instance it was made on
    log,           \* the records the last call logged, in order
    yielded,       \* what iter_mismatches yielded during the last call
    invalid,       \* the list get_invalid returned during the last call
    node_by_path,  \* the stripped path -> nodes dict of the last get_invalid
    edits,         \* scene: the edit log of the camera reference, in order
    relevant_edits, \* the plugs get_disallowed_camera_edits returned last
    requests,      \* the cmds.referenceEdit removals the last call made
    objsetMembers, \* scene: the members of the animation instance's object set
    refLoaded,     \* scene: reference node -> whether the reference is loaded
    refContent,    \* scene: reference node -> the nodes of its file
    queried,       \* the references the last repair queried the nodes of
    addedSets,     \* the sets the last repair added to the object set
    unknownNodes,  \* scene: the unknown nodes, as cmds.ls(type="unknown") lists them
    unknownPlugins, \* scene: the unknown plug-ins, as cmds.unknownPlugin lists them
    hostRejects,   \* scene: the nodes and plug-ins Maya refuses to delete or remove
    attempts,      \* the cmds.delete and cmds.unknownPlugin(remove) calls of the last repair
    database,      \* database: the products and their last versions
    cls_cache,     \* the class attribute ValidateSubsetsLastVersionTask.cache
    self_cache,    \* what self.cache is on the plug-in object of the last call
    publishPass,   \* the number of the publishing pass
    cacheLog,      \* the cache each get_last_task_for_instance found and used
    singletonNodes, \* scene: how many nodes carry the render creator's identifier
    render_settings, \* the class attribute CreateRenderlayer.render_settings
    settingsApplied, \* how many times the default render settings were applied
    creates,       \* how many times the render creator's create was called
    layerRenderable, \* scene: the renderable state of the render setup layer
    nodeActiveAttr, \* scene: the active attribute of the layer's instance node
    collected,     \* whether the layer's instance is in the create context
    callData,      \* the data the last override call was given
    returnedData,  \* the data the last override call returned
    previousCall,  \* the call made before the last one, and the data it was given
    autotx,        \* scene: the value of defaultArnoldRenderOptions.autotx without overrides
    autotxOverride, \* scene: render setup layer -> its override of the plug, if any
    currentLayer,  \* scene: the visible render setup layer
    container,     \* scene: the loaded container and what it holds
    rootParent,    \* scene: the parent group of the container's root, if any
    loadContext,   \* the representation context the last loader call was given
    layoutScene,   \* scene and database: the loader containers and the representations
    files,         \* disk: the files written to the staging directory, in order
    raised         \* the exception the last call ended with, or "none"

vars == <<cbId, context, lastPublish, op, inst, log, yielded, invalid,
          node_by_path, edits, relevant_edits, requests,
          objsetMembers, refLoaded, refContent, queried, addedSets,
          unknownNodes, unknownPlugins, hostRejects, attempts,
          database, cls_cache, self_cache, publishPass, cacheLog,
          singletonNodes, render_settings, settingsApplied, creates, layerRenderable, nodeActiveAttr, collected, callData, returnedData, previousCall,
          autotx, autotxOverride, currentLayer,
          container, rootParent, loadContext,
          layoutScene, files, raised>>

\* What the plug-ins of one file leave alone, and its value where unused.
cameraEditsVars == <<edits, relevant_edits, requests>>
animationVars ==
    <<objsetMembers, refLoaded, refContent, queried, addedSets>>
unknownVars == <<unknownNodes, unknownPlugins, hostRejects, attempts>>
lastVersionVars == <<database, cls_cache, self_cache, publishPass, cacheLog>>
renderVars == <<singletonNodes, render_settings, settingsApplied, creates, layerRenderable, nodeActiveAttr, collected, callData, returnedData, previousCall>>
autoTxVars == <<autotx, autotxOverride, currentLayer>>
proxyVars == <<container, rootParent, loadContext>>
layoutVars == <<layoutScene, files>>
othersOfModelIds ==
    <<node_by_path, cameraEditsVars, animationVars, unknownVars,
      lastVersionVars,
      renderVars,
      autoTxVars,
      proxyVars,
      layoutVars>>
othersOfClash ==
    <<lastPublish, yielded, node_by_path, cameraEditsVars, animationVars,
      unknownVars,
      lastVersionVars,
      renderVars,
      autoTxVars,
      proxyVars,
      layoutVars>>
othersOfStrip ==
    <<cbId, lastPublish, yielded, cameraEditsVars, animationVars, unknownVars,
      lastVersionVars,
      renderVars,
      autoTxVars,
      proxyVars,
      layoutVars>>
othersOfCameraEdits ==
    <<cbId, context, lastPublish, inst, yielded, invalid, node_by_path,
      animationVars, unknownVars,
      lastVersionVars,
      renderVars,
      autoTxVars,
      proxyVars,
      layoutVars>>
othersOfAnimation ==
    <<cbId, context, lastPublish, inst, yielded, invalid, node_by_path,
      cameraEditsVars, unknownVars,
      lastVersionVars,
      renderVars,
      autoTxVars,
      proxyVars,
      layoutVars>>
othersOfUnknown ==
    <<cbId, context, lastPublish, inst, yielded, invalid, node_by_path,
      cameraEditsVars, animationVars,
      lastVersionVars,
      renderVars,
      autoTxVars,
      proxyVars,
      layoutVars>>

othersOfLastVersion ==
    <<cbId, lastPublish, yielded, invalid, node_by_path, cameraEditsVars,
      animationVars, unknownVars,
      renderVars,
      autoTxVars,
      proxyVars,
      layoutVars>>

othersOfRender ==
    <<cbId, context, lastPublish, inst, yielded, invalid, node_by_path,
      cameraEditsVars, animationVars, unknownVars, lastVersionVars,
      autoTxVars,
      proxyVars,
      layoutVars>>

othersOfAutoTx ==
    <<cbId, context, lastPublish, yielded, invalid, node_by_path,
      cameraEditsVars, animationVars, unknownVars, lastVersionVars, renderVars,
      proxyVars,
      layoutVars>>

othersOfProxy ==
    <<cbId, context, lastPublish, inst, yielded, invalid, node_by_path,
      cameraEditsVars, animationVars, unknownVars, lastVersionVars, renderVars,
      autoTxVars,
      layoutVars>>

othersOfLayout ==
    <<cbId, lastPublish, yielded, invalid, node_by_path,
      cameraEditsVars, animationVars, unknownVars, lastVersionVars, renderVars,
      autoTxVars, proxyVars>>

\* The scene of a specification that has no unknown node or plug-in.
NoUnknown ==
    /\ unknownNodes = <<>>
    /\ unknownPlugins = <<>>
    /\ hostRejects = {}
    /\ attempts = <<>>

\* The scene of a specification that has no animation instance.
NoAnimation ==
    /\ objsetMembers = <<>>
    /\ refLoaded = <<>>
    /\ refContent = <<>>
    /\ queried = <<>>
    /\ addedSets = <<>>

\* The state of a specification that does not run the last-version validator.
NoLastVersion ==
    /\ database = <<>>
    /\ cls_cache = <<>>
    /\ self_cache = <<>>
    /\ publishPass = 1
    /\ cacheLog = <<>>

\* The scene of a specification that has no render instance.
NoRender ==
    /\ singletonNodes = 0
    /\ render_settings = <<>>
    /\ settingsApplied = 0
    /\ creates = 0
    /\ layerRenderable = FALSE
    /\ nodeActiveAttr = <<>>
    /\ collected = FALSE
    /\ callData = <<>>
    /\ returnedData = <<>>
    /\ previousCall = <<>>

\* The scene of a specification that has no Arnold render options.
NoAutoTx ==
    /\ autotx = FALSE
    /\ autotxOverride = <<>>
    /\ currentLayer = ""

\* The scene of a specification that has no loaded container.
NoProxy ==
    /\ container = <<>>
    /\ rootParent = <<>>
    /\ loadContext = <<>>

\* The scene of a specification that has no layout instance.
NoLayout ==
    /\ layoutScene = <<>>
    /\ files = <<>>

-----------------------------------------------------------------------------
(* Bounds *)

\* Node ids are 1..MaxId; 0 stands for a missing or empty cbId.
MaxId == 2

-----------------------------------------------------------------------------
(* Python strings, lists and dicts *)

\* The characters in use, in code point order.
Alphabet ==
    <<".", "/", "0", "1", "2", "3", "4", "5", "6", "7", "8", "9", ":",
      "A", "B", "C", "D", "E", "F", "G", "H", "I", "J", "K", "L", "M",
      "N", "O", "P", "Q", "R", "S", "T", "U", "V", "W", "X", "Y", "Z",
      "[", "]", "_",
      "a", "b", "c", "d", "e", "f", "g", "h", "i", "j", "k", "l", "m",
      "n", "o", "p", "q", "r", "s", "t", "u", "v", "w", "x", "y", "z",
      "|">>

CharCode(c) == CHOOSE i \in 1..Len(Alphabet) : Alphabet[i] = c

\* s < t for Python strings: lexicographic by code point.
RECURSIVE StrLess(_, _)
StrLess(s, t) ==
    IF t = <<>> THEN FALSE
    ELSE IF s = <<>> THEN TRUE
    ELSE IF Head(s) = Head(t) THEN StrLess(Tail(s), Tail(t))
    ELSE CharCode(Head(s)) < CharCode(Head(t))

\* s.replace(old, new) for one-character old and new.
StrReplace(s, old, new) ==
    [i \in 1..Len(s) |-> IF s[i] = old THEN new ELSE s[i]]

Range(f) == {f[i] : i \in DOMAIN f}

\* key in d
DictHas(d, k) == \E i \in 1..Len(d) : d[i][1] = k

\* d[k] for a key of d
DictGet(d, k) == d[CHOOSE i \in 1..Len(d) : d[i][1] = k][2]

\* d[k] = v: a new key goes last, an old key keeps its place.
DictSet(d, k, v) ==
    IF DictHas(d, k)
    THEN [i \in 1..Len(d) |-> IF d[i][1] = k THEN <<k, v>> ELSE d[i]]
    ELSE Append(d, <<k, v>>)

\* list(d.keys())
DictKeys(d) == [i \in 1..Len(d) |-> d[i][1]]

\* sorted(d.items()): the items by key (keys are distinct strings).
RECURSIVE SortedItems(_)
SortedItems(d) ==
    IF d = <<>> THEN <<>>
    ELSE LET m == CHOOSE i \in 1..Len(d) :
                      \A j \in 1..Len(d) : j = i \/ StrLess(d[i][1], d[j][1])
             rest == [j \in 1..(Len(d) - 1) |-> IF j < m THEN d[j] ELSE d[j + 1]]
         IN  <<d[m]>> \o SortedItems(rest)

\* sorted(d.keys())
SortedKeys(d) == DictKeys(SortedItems(d))

\* The sequences without repetition over the elements of S.
RECURSIVE Orderings(_)
Orderings(S) ==
    IF S = {} THEN {<<>>}
    ELSE UNION {{<<x>> \o t : t \in Orderings(S \ {x})} : x \in S}

OrderedSubsets(S) == UNION {Orderings(T) : T \in SUBSET S}

-----------------------------------------------------------------------------
(* The scene *)

NodeA == <<"|", "a">>                  \* a transform
NodeB == <<"|", "b">>                  \* a transform
NodeBC == <<"|", "b", "|", "c">>       \* a mesh under |b
NodeBO == <<"|", "b", "|", "o">>       \* the intermediate (orig) mesh under |b
SetS  == <<"s">>                       \* an object set

\* cmds.nodeType, as cmds.ls(type=...) groups it
NodeKind(node) ==
    IF node = SetS THEN "objectSet"
    ELSE IF node \in {NodeBC, NodeBO} THEN "shape"
    ELSE "transform"

\* the intermediateObject flag of a shape
IsIntermediate(node) == node = NodeBO

\* cmds.ls(type="dagNode"): a DAG node's long name starts with "|".
IsDagNode(node) == node # <<>> /\ node[1] = "|"

\* lib.get_id(node): None or "" (here 0) when the node carries no id.
get_id(ids, node) == ids[node]

\* lib.set_id(node, unique_id, overwrite=True)
set_id(ids, node, unique_id) == [ids EXCEPT ![node] = unique_id]

\* cmds.ls(members, type="dagNode", long=True) of a list with members
ls_dagNode(members) == SelectSeq(members, IsDagNode)

-----------------------------------------------------------------------------
(* validate_model_ids_existing_versions.py *)

\* A log record: <<level, message, argument>>.
LogRecord(level, msg, arg) == <<level, msg, arg>>

\* One object of an Alembic archive.  props: "none" when the object has no
\* properties, "noattr" when .arbGeomParams or the attribute is missing
\* (KeyError), "attr" when the attribute is there with `value`.
AbcObject(name, props, value, children) ==
    [name |-> name, props |-> props, value |-> value, children |-> children]

\* The loop over `iterator`, which grows by each object's children.
RECURSIVE walk_archive(_, _, _)
walk_archive(iterator, i, obj_ids) ==
    IF i > Len(iterator) THEN obj_ids
    ELSE LET obj == iterator[i]
             extended == iterator \o obj.children
         IN  IF obj.props = "none" THEN walk_archive(extended, i + 1, obj_ids)
             ELSE IF obj.props = "noattr"
                  THEN walk_archive(extended, i + 1, obj_ids)
                  ELSE walk_archive(extended, i + 1,
                                    DictSet(obj_ids, obj.name, obj.value))

\* alembic.Abc.IArchive(filename) raises RuntimeError on a file that is no
\* Alembic archive.
IArchive(pub) == IF pub.alembic THEN "none" ELSE "RuntimeError"

\* Mutant: the RuntimeError of IArchive is not caught.
get_alembic_paths_by_property_uncaught(pub) ==
    IF IArchive(pub) = "RuntimeError"
    THEN [error |-> "RuntimeError", obj_ids |-> <<>>, log |-> <<>>]
    ELSE [error |-> "none", obj_ids |-> walk_archive(pub.top, 1, <<>>),
          log |-> <<>>]

\* dict: node full path -> id, with what was logged and the exception that
\* escapes.  The RuntimeError of IArchive is caught: {} is returned.
get_alembic_paths_by_property(pub) ==
    IF IArchive(pub) = "RuntimeError"
    THEN [error |-> "none", obj_ids |-> <<>>,
          log |-> <<LogRecord("warning", "is not an alembic file", <<>>)>>]
    ELSE [error |-> "none", obj_ids |-> walk_archive(pub.top, 1, <<>>),
          log |-> <<>>]

RECURSIVE group_by_id(_, _, _)
group_by_id(node_ids, i, id_nodes) ==
    IF i > Len(node_ids) THEN id_nodes
    ELSE LET node == node_ids[i][1]
             id   == node_ids[i][2]
             old  == IF DictHas(id_nodes, id) THEN DictGet(id_nodes, id) ELSE <<>>
         IN  group_by_id(node_ids, i + 1, DictSet(id_nodes, id, Append(old, node)))

\* dict: id -> list of nodes in the Alembic.
get_alembic_ids_cache(pub) ==
    LET node_ids == get_alembic_paths_by_property(pub)
    IN  [error |-> node_ids.error, log |-> node_ids.log,
         id_nodes |-> group_by_id(node_ids.obj_ids, 1, <<>>)]

\* {path: _id for _id, paths in ids_to_paths.items() for path in paths}
RECURSIVE invert_ids_to_paths(_, _, _, _)
invert_ids_to_paths(ids_to_paths, i, j, acc) ==
    IF i > Len(ids_to_paths) THEN acc
    ELSE IF j > Len(ids_to_paths[i][2])
         THEN invert_ids_to_paths(ids_to_paths, i + 1, 1, acc)
         ELSE invert_ids_to_paths(ids_to_paths, i, j + 1,
                  DictSet(acc, ids_to_paths[i][2][j], ids_to_paths[i][1]))

abc_path_to_id_of(ids_to_paths) == invert_ids_to_paths(ids_to_paths, 1, 1, <<>>)

\* dict: abc path -> (node, id) of the instance's DAG nodes that carry an id.
RECURSIVE instance_nodes_id_by_abc_path_of(_, _, _, _)
instance_nodes_id_by_abc_path_of(nodes, ids, i, acc) ==
    IF i > Len(nodes) THEN acc
    ELSE LET node == nodes[i]
             node_id == get_id(ids, node)
         IN  IF node_id = 0
             THEN instance_nodes_id_by_abc_path_of(nodes, ids, i + 1, acc)
             ELSE instance_nodes_id_by_abc_path_of(nodes, ids, i + 1,
                      DictSet(acc, StrReplace(node, "|", "/"), <<node, node_id>>))

log_changed_hierarchies == TRUE

\* "Detected removed path" warnings, in the order of abc_path_to_id.keys().
removed_path_log(abc_path_to_id, by_abc_path) ==
    LET removed(path) == ~DictHas(by_abc_path, path)
        paths == SelectSeq(DictKeys(abc_path_to_id), removed)
    IN  [i \in 1..Len(paths) |->
            LogRecord("warning", "Detected removed path", paths[i])]

\* Mutant: every current path is logged as new.
new_path_log_unfiltered(abc_path_to_id, by_abc_path) ==
    LET paths == SortedKeys(by_abc_path)
    IN  [i \in 1..Len(paths) |->
            LogRecord("warning", "Detected new path", paths[i])]

\* "Detected new path" warnings, over the sorted keys.
new_path_log(abc_path_to_id, by_abc_path) ==
    LET added(path) == ~DictHas(abc_path_to_id, path)
        paths == SelectSeq(SortedKeys(by_abc_path), added)
    IN  [i \in 1..Len(paths) |->
            LogRecord("warning", "Detected new path", paths[i])]

\* Mutant: the ids are not compared.
mismatches_of_no_compare(abc_path_to_id, by_abc_path) ==
    LET known(item) == DictHas(abc_path_to_id, item[1])
        items == SelectSeq(SortedItems(by_abc_path), known)
    IN  [i \in 1..Len(items) |->
            <<items[i][2][1], DictGet(abc_path_to_id, items[i][1]), items[i][2][2]>>]

\* The final loop: the mismatches, over the sorted items.
mismatches_of(abc_path_to_id, by_abc_path) ==
    LET differs(item) ==
            /\ DictHas(abc_path_to_id, item[1])
            /\ DictGet(abc_path_to_id, item[1]) # item[2][2]
        items == SelectSeq(SortedItems(by_abc_path), differs)
    IN  [i \in 1..Len(items) |->
            <<items[i][2][1], DictGet(abc_path_to_id, items[i][1]), items[i][2][2]>>]

\* iter_mismatches(instance): what it yields, what it logs and the
\* exception that escapes it.
iter_mismatches(instance, ids, pub) ==
    IF ~pub.version
    THEN [error |-> "none", yield |-> <<>>,
          log |-> <<LogRecord("debug", "Product does not exist yet", <<>>)>>]
    ELSE IF ~pub.representation
    THEN [error |-> "none", yield |-> <<>>, log |-> <<>>]
    ELSE IF pub.path = "" \/ ~pub.exists
    THEN [error |-> "none", yield |-> <<>>,
          log |-> <<LogRecord("info", "Comparing model changes", <<>>),
                    LogRecord("warning", "Representation path does not exist", <<>>)>>]
    ELSE LET cache == get_alembic_ids_cache(pub)
             abc_path_to_id == abc_path_to_id_of(cache.id_nodes)
             by_abc_path ==
                 instance_nodes_id_by_abc_path_of(
                     ls_dagNode(instance.members), ids, 1, <<>>)
             head == <<LogRecord("info", "Comparing model changes", <<>>)>>
                     \o cache.log
         IN  IF cache.error # "none"
             THEN [error |-> cache.error, yield |-> <<>>, log |-> head]
             ELSE [error |-> "none",
                   yield |-> mismatches_of(abc_path_to_id, by_abc_path),
                   log |-> head
                       \o (IF log_changed_hierarchies
                           THEN removed_path_log(abc_path_to_id, by_abc_path)
                                \o new_path_log(abc_path_to_id, by_abc_path)
                           ELSE <<>>)]

\* get_invalid(instance): the returned list, the log and the exception.
ModelIds_get_invalid(instance, ids, pub) ==
    LET it == iter_mismatches(instance, ids, pub)
    IN  [error |-> it.error,
         invalid |-> [i \in 1..Len(it.yield) |-> it.yield[i][1]],
         yield |-> it.yield,
         log |-> it.log \o [i \in 1..Len(it.yield) |->
                     LogRecord("error", "Id changed for", it.yield[i][1])]]

\* Mutant: repair writes the current id back.
RECURSIVE repaired_ids_keeps_current(_, _, _)
repaired_ids_keeps_current(ids, mismatches, n) ==
    IF n = 0 THEN ids
    ELSE set_id(repaired_ids_keeps_current(ids, mismatches, n - 1),
                mismatches[n][1], mismatches[n][3])

\* The ids after repair's loop has called set_id for the first n mismatches.
RECURSIVE repaired_ids(_, _, _)
repaired_ids(ids, mismatches, n) ==
    IF n = 0 THEN ids
    ELSE set_id(repaired_ids(ids, mismatches, n - 1),
                mismatches[n][1], mismatches[n][2])

-----------------------------------------------------------------------------
(* The actions of ValidateModelIdsToExistingVersion *)

\* get_invalid(instance), as the select-invalid action calls it
ValidateModelIdsToExistingVersion_get_invalid ==
    \E i \in 1..Len(context) :
        \E r \in {ModelIds_get_invalid(context[i], cbId, lastPublish)} :
            /\ op' = "get_invalid"
            /\ inst' = i
            /\ log' = r.log
            /\ yielded' = r.yield
            /\ invalid' = r.invalid
            /\ raised' = r.error
            /\ UNCHANGED <<cbId, context, lastPublish>>
            /\ UNCHANGED othersOfModelIds

\* process(instance); `active` is what is_active(instance.data) answers
ValidateModelIdsToExistingVersion_process ==
    \E i \in 1..Len(context), active \in BOOLEAN :
        \E r \in {ModelIds_get_invalid(context[i], cbId, lastPublish)} :
            /\ op' = IF active THEN "process" ELSE "process_inactive"
            /\ inst' = i
            /\ log' = IF active THEN r.log ELSE <<>>
            /\ yielded' = IF active THEN r.yield ELSE <<>>
            /\ invalid' = IF active THEN r.invalid ELSE <<>>
            /\ raised' = IF ~active THEN "none"
                         ELSE IF r.error # "none" THEN r.error
                         ELSE IF r.invalid # <<>> THEN "PublishValidationError"
                         ELSE "none"
            /\ UNCHANGED <<cbId, context, lastPublish>>
            /\ UNCHANGED othersOfModelIds

\* repair(instance)
ValidateModelIdsToExistingVersion_repair ==
    \E i \in 1..Len(context) :
        \E it \in {iter_mismatches(context[i], cbId, lastPublish)} :
            /\ op' = "repair"
            /\ inst' = i
            /\ cbId' = repaired_ids(cbId, it.yield, Len(it.yield))
            /\ log' = it.log \o [k \in 1..Len(it.yield) |->
                          LogRecord("info", "Updating id for", it.yield[k][1])]
            /\ yielded' = it.yield
            /\ invalid' = <<>>
            /\ raised' = it.error
            /\ UNCHANGED <<context, lastPublish>>
            /\ UNCHANGED othersOfModelIds

\* A pyblish instance: the list of its member nodes and its data.
Instance(members, data) == [members |-> members, data |-> data]

\* instance.data: family ("" when unset), the families list when the key is
\* there, the folder path, and whether the instance is enabled for publishing.
InstanceData(family, hasFamilies, families, folderPath, active) ==
    [family |-> family, hasFamilies |-> hasFamilies, families |-> families,
     folderPath |-> folderPath, active |-> active]

ModelData == InstanceData("model", TRUE, <<"model">>, "/assets/hero", TRUE)

ModelNodes == {NodeA, NodeB, SetS}

\* The instance's members: a non-empty list of scene nodes, the DAG nodes in
\* any order and the object set, when a member, last.
ModelMembers ==
    {m \o t : m \in OrderedSubsets({NodeA, NodeB}), t \in {<<>>, <<SetS>>}}
        \ {<<>>}

AbcNameA == <<"/", "a">>
AbcNameB == <<"/", "b">>
AbcNameC == <<"/", "c">>
AbcNameAC == <<"/", "a", "/", "c">>

\* What one archive object may hold.
AbcContents ==
    {[props |-> "none", value |-> 0], [props |-> "noattr", value |-> 0]}
        \cup {[props |-> "attr", value |-> v] : v \in 0..MaxId}

\* The flat archives over the names /a and /b, in any order of the writer.
FlatArchives ==
    UNION {{[i \in 1..Len(o) |->
                AbcObject(o[i], c[i].props, c[i].value, <<>>)] :
            c \in [1..Len(o) -> AbcContents]} :
           o \in OrderedSubsets({AbcNameA, AbcNameB})}

\* /a:id1, /b:id9, /c:id3
ExampleArchive ==
    <<AbcObject(AbcNameA, "attr", 1, <<>>),
      AbcObject(AbcNameB, "attr", 9, <<>>),
      AbcObject(AbcNameC, "attr", 3, <<>>)>>

\* /a with a child /a/c, then /c; /a and /c share an id
NestedArchive ==
    <<AbcObject(AbcNameA, "attr", 1,
                <<AbcObject(AbcNameAC, "attr", 2, <<>>)>>),
      AbcObject(AbcNameC, "attr", 1, <<>>)>>

Publish(version, representation, path, exists, alembic, top) ==
    [version |-> version, representation |-> representation, path |-> path,
     exists |-> exists, alembic |-> alembic, top |-> top]

\* The product's last publish as the database and the disk give it: none,
\* one without an abc representation, one whose path is empty or is not on
\* disk, one whose file is no Alembic archive, or a readable archive.
Publishes ==
    {Publish(FALSE, FALSE, "", FALSE, FALSE, <<>>),
     Publish(TRUE, FALSE, "", FALSE, FALSE, <<>>),
     Publish(TRUE, TRUE, "", FALSE, FALSE, <<>>),
     Publish(TRUE, TRUE, "model.abc", FALSE, FALSE, <<>>),
     Publish(TRUE, TRUE, "model.abc", TRUE, FALSE, <<>>)}
        \cup {Publish(TRUE, TRUE, "model.abc", TRUE, TRUE, top) :
              top \in FlatArchives \cup {ExampleArchive, NestedArchive}}

InitModelIds ==
    /\ cbId \in [ModelNodes -> 0..MaxId]
    /\ cbId[SetS] = 1    \* never read: the set is no DAG node
    /\ context \in {<<Instance(m, ModelData)>> : m \in ModelMembers}
    /\ lastPublish \in Publishes
    /\ op = "init"
    /\ inst = 0
    /\ log = <<>>
    /\ yielded = <<>>
    /\ invalid = <<>>
    /\ node_by_path = <<>>
    /\ edits = <<>>
    /\ relevant_edits = {}
    /\ requests = <<>>
    /\ NoAnimation
    /\ NoUnknown
    /\ NoLastVersion
    /\ NoRender
    /\ NoAutoTx
    /\ NoProxy
    /\ NoLayout
    /\ raised = "none"

NextModelIds ==
    \/ ValidateModelIdsToExistingVersion_get_invalid
    \/ ValidateModelIdsToExistingVersion_process
    \/ ValidateModelIdsToExistingVersion_repair

SpecModelIds == InitModelIds /\ [][NextModelIds]_vars

-----------------------------------------------------------------------------
(* The snapshots, stated apart from the traversal *)

\* Every object of an archive, at any depth.
RECURSIVE ObjectsOf(_)
ObjectsOf(children) ==
    UNION {{children[i]} \cup ObjectsOf(children[i].children) :
           i \in 1..Len(children)}

\* The last publish has an Alembic archive that can be read.
Readable(pub) ==
    pub.version /\ pub.representation /\ pub.path # "" /\ pub.exists /\ pub.alembic

\* The reference snapshot: <<path, id>> of the archive's objects with an id.
ReferenceSnapshot ==
    IF Readable(lastPublish)
    THEN {<<o.name, o.value>> :
          o \in {x \in ObjectsOf(lastPublish.top) : x.props = "attr"}}
    ELSE {}

\* The instance's DAG nodes that carry an id.
NodesWithId(i) ==
    {n \in Range(context[i].members) : IsDagNode(n) /\ cbId[n] # 0}

\* The current snapshot: <<path, id>> of those nodes.
CurrentSnapshot(i) == {<<StrReplace(n, "|", "/"), cbId[n]>> : n \in NodesWithId(i)}

Keys(snapshot) == {e[1] : e \in snapshot}

\* The last call ran iter_mismatches and left the scene as it read it.
Queried == op \in {"get_invalid", "process"}

ChangedPaths == {StrReplace(y[1], "|", "/") : y \in Range(yielded)}

LoggedPaths(msg) == LET hit(l) == l[2] = msg
                        ls == SelectSeq(log, hit)
                    IN  [k \in 1..Len(ls) |-> ls[k][3]]

AddedPaths == Range(LoggedPaths("Detected new path"))

RemovedPaths == Range(LoggedPaths("Detected removed path"))

IsSortedSeq(paths) ==
    \A j, k \in 1..Len(paths) : j < k => StrLess(paths[j], paths[k])

\* The example of the specification: current {/a: id1, /b: id2} against the
\* reference {/a: id1, /b: id9, /c: id3}.
ExampleCase ==
    /\ inst # 0
    /\ Readable(lastPublish)
    /\ lastPublish.top = ExampleArchive
    /\ CurrentSnapshot(inst) = {<<AbcNameA, 1>>, <<AbcNameB, 2>>}

-----------------------------------------------------------------------------
(* C1: iter_mismatches yields <<node, previous id, current id>> for exactly
   the instance's DAG nodes that carry an id, whose path with "|" replaced
   by "/" is a key of the published snapshot and whose id differs from the
   recorded one, each once; a snapshot compared against itself yields
   nothing, and the example yields only /b with (id9, id2). *)
C1_MismatchesExact ==
    Queried =>
        /\ Range(yielded) =
               {<<x[1], x[2][2], cbId[x[1]]>> :
                x \in {y \in NodesWithId(inst) \X ReferenceSnapshot :
                          /\ y[2][1] = StrReplace(y[1], "|", "/")
                          /\ y[2][2] # cbId[y[1]]}}
        /\ Len(yielded) = Cardinality(Range(yielded))
        /\ CurrentSnapshot(inst) = ReferenceSnapshot => yielded = <<>>
        /\ ExampleCase => yielded = <<<<NodeB, 9, 2>>>>

C1_Witness == op = "process" /\ ExampleCase /\ yielded = <<<<NodeB, 9, 2>>>>

(* C2: the changed paths (yielded), the added paths (logged "Detected new
   path") and the removed paths (logged "Detected removed path") of one
   reconciliation are pairwise disjoint, and each is a key of the current
   or of the reference snapshot. *)
C2_ResultSetsDisjoint ==
    Queried =>
        /\ ChangedPaths \cap AddedPaths = {}
        /\ ChangedPaths \cap RemovedPaths = {}
        /\ AddedPaths \cap RemovedPaths = {}
        /\ (ChangedPaths \cup AddedPaths \cup RemovedPaths)
               \subseteq (Keys(CurrentSnapshot(inst)) \cup Keys(ReferenceSnapshot))

C2_Witness ==
    /\ op = "get_invalid"
    /\ ChangedPaths # {}
    /\ AddedPaths # {}
    /\ RemovedPaths # {}

(* C3: the changed mismatches, the added-path reports and the removed-path
   reports of one reconciliation are each produced in ascending path order. *)
C3_AllReportsSorted ==
    Queried =>
        /\ IsSortedSeq([k \in 1..Len(yielded) |-> StrReplace(yielded[k][1], "|", "/")])
        /\ IsSortedSeq(LoggedPaths("Detected new path"))
        /\ IsSortedSeq(LoggedPaths("Detected removed path"))

(* C4: when there is no published version, no abc representation, an empty
   or missing representation path, or a file that is no Alembic archive,
   iter_mismatches yields nothing and the call ends without an exception. *)
C4_MissingDataIsNoError ==
    (inst # 0 /\ ~Readable(lastPublish)) =>
        /\ yielded = <<>>
        /\ invalid = <<>>
        /\ raised = "none"

C4_Witness ==
    /\ op = "process"
    /\ lastPublish.exists
    /\ ~lastPublish.alembic
    /\ NodesWithId(inst) # {}

(* C5: a repair leaves every node it reported with the id recorded for its
   path in the previous publish, so that get_invalid then returns an empty
   list; a repair that follows a repair changes no id. *)
C5_RepairFixesAndIsIdempotent ==
    [][op' = "repair" =>
          /\ \A k \in 1..Len(yielded') : cbId'[yielded'[k][1]] = yielded'[k][2]
          /\ ModelIds_get_invalid(context'[inst'], cbId', lastPublish').invalid = <<>>
          /\ op = "repair" => cbId' = cbId]_vars

C5_Witness == op = "repair" /\ Len(yielded) = 2

-----------------------------------------------------------------------------
(* validate_model_ids_unique_in_asset.py *)

\* Families are capped so that the list get_instance_families grows stays
\* bounded.
MaxFamilies == 2

\* cmds.ls(members, noIntermediate=True, type=("transform", "shape"), long=True)
ls_transform_shape(members) ==
    LET keep(node) == /\ NodeKind(node) \in {"transform", "shape"}
                      /\ ~IsIntermediate(node)
    IN  SelectSeq(members, keep)

\* The loop of get_instance_node_ids: id -> list of members.
RECURSIVE collect_ids(_, _, _, _)
collect_ids(instance_members, ids, i, acc) ==
    IF i > Len(instance_members) THEN acc
    ELSE LET member == instance_members[i]
             object_id == get_id(ids, member)
             old == IF DictHas(acc, object_id) THEN DictGet(acc, object_id) ELSE <<>>
         IN  IF object_id = 0
             THEN collect_ids(instance_members, ids, i + 1, acc)
             ELSE collect_ids(instance_members, ids, i + 1,
                              DictSet(acc, object_id, Append(old, member)))

get_instance_node_ids(instance, ids) ==
    collect_ids(ls_transform_shape(instance.members), ids, 1, <<>>)

\* get_instance_families(instance): the set it returns and instance.data as
\* it leaves it.  `families` is the list held by instance.data when the key
\* is there, so the append changes instance.data.
get_instance_families(data) ==
    LET families == IF data.hasFamilies THEN data.families ELSE <<>>
        appended == IF data.family # "" THEN Append(families, data.family)
                    ELSE families
    IN  [set |-> Range(appended),
         data |-> IF data.hasFamilies THEN [data EXCEPT !.families = appended]
                  ELSE data]

\* cls.families
plugin_families == {"model"}

\* The context after the comprehension of get_invalid: get_instance_families
\* ran on every instance but the one under test.
context_after_families(ctx, i) ==
    [j \in 1..Len(ctx) |->
        IF j = i THEN ctx[j]
        ELSE [ctx[j] EXCEPT !.data = get_instance_families(ctx[j].data).data]]

\* Mutant: instances disabled for publishing are left out.
others_of_only_active(ctx, i) ==
    LET other(j) ==
            /\ j # i
            /\ ctx[j].data.active
            /\ plugin_families \cap get_instance_families(ctx[j].data).set # {}
            /\ ctx[i].data.folderPath = ctx[j].data.folderPath
    IN  SelectSeq([j \in 1..Len(ctx) |-> j], other)

\* others: the indexes of the other instances of the plug-in's families with
\* the same folderPath, in context order.
others_of(ctx, i) ==
    LET other(j) ==
            /\ j # i
            /\ plugin_families \cap get_instance_families(ctx[j].data).set # {}
            /\ ctx[i].data.folderPath = ctx[j].data.folderPath
    IN  SelectSeq([j \in 1..Len(ctx) |-> j], other)

\* other_ids[_id].extend(members), over the items of one other instance
RECURSIVE extend_ids(_, _, _)
extend_ids(other_ids, items, k) ==
    IF k > Len(items) THEN other_ids
    ELSE LET old == IF DictHas(other_ids, items[k][1])
                    THEN DictGet(other_ids, items[k][1]) ELSE <<>>
         IN  extend_ids(DictSet(other_ids, items[k][1], old \o items[k][2]),
                        items, k + 1)

RECURSIVE other_ids_of(_, _, _, _, _)
other_ids_of(ctx, ids, others, k, acc) ==
    IF k > Len(others) THEN acc
    ELSE other_ids_of(ctx, ids, others, k + 1,
             extend_ids(acc, get_instance_node_ids(ctx[others[k]], ids), 1))

\* Mutant: the clashing nodes of the other instances are not listed.
RECURSIVE clashes_of_without_others(_, _, _, _)
clashes_of_without_others(items, other_ids, k, acc) ==
    IF k > Len(items) THEN acc
    ELSE IF DictHas(other_ids, items[k][1])
         THEN clashes_of_without_others(items, other_ids, k + 1,
                  [log |-> Append(acc.log,
                               LogRecord("error", "ID for node clashes",
                                   <<items[k][2], <<>>>>)),
                   invalid |-> acc.invalid \o items[k][2]])
         ELSE clashes_of_without_others(items, other_ids, k + 1, acc)

\* Mutant: the clashing nodes of the other instances are returned as well.
RECURSIVE clashes_of_with_foreign(_, _, _, _)
clashes_of_with_foreign(items, other_ids, k, acc) ==
    IF k > Len(items) THEN acc
    ELSE IF DictHas(other_ids, items[k][1])
         THEN clashes_of_with_foreign(items, other_ids, k + 1,
                  [log |-> Append(acc.log,
                               LogRecord("error", "ID for node clashes",
                                   <<items[k][2], DictGet(other_ids, items[k][1])>>)),
                   invalid |-> acc.invalid \o items[k][2]
                                   \o DictGet(other_ids, items[k][1])])
         ELSE clashes_of_with_foreign(items, other_ids, k + 1, acc)

\* The last loop of get_invalid: the error logs and the invalid list.
RECURSIVE clashes_of(_, _, _, _)
clashes_of(items, other_ids, k, acc) ==
    IF k > Len(items) THEN acc
    ELSE IF DictHas(other_ids, items[k][1])
         THEN clashes_of(items, other_ids, k + 1,
                  [log |-> Append(acc.log,
                               LogRecord("error", "ID for node clashes",
                                   <<items[k][2], DictGet(other_ids, items[k][1])>>)),
                   invalid |-> acc.invalid \o items[k][2]])
         ELSE clashes_of(items, other_ids, k + 1, acc)

\* get_invalid(instance) of ValidateNodeIdsUniqueInstanceClash
Clash_get_invalid(ctx, i, ids) ==
    LET others == others_of(ctx, i)
    IN  IF others = <<>> THEN [log |-> <<>>, invalid |-> <<>>]
        ELSE clashes_of(get_instance_node_ids(ctx[i], ids),
                        other_ids_of(ctx, ids, others, 1, <<>>),
                        1, [log |-> <<>>, invalid |-> <<>>])

\* pyblish runs the plug-in on the instances of its families.
PluginRunsOn(data) ==
    plugin_families \cap (Range(data.families) \cup {data.family}) # {}

\* The families lists get_invalid(context[i]) appends to still have room.
FamiliesHaveRoom(i) ==
    \A j \in 1..Len(context) :
        j # i /\ context[j].data.hasFamilies
            => Len(context[j].data.families) < MaxFamilies

ValidateNodeIdsUniqueInstanceClash_get_invalid ==
    \E i \in 1..Len(context) :
        /\ PluginRunsOn(context[i].data)
        /\ FamiliesHaveRoom(i)
        /\ \E r \in {Clash_get_invalid(context, i, cbId)} :
            /\ op' = "get_invalid"
            /\ inst' = i
            /\ log' = r.log
            /\ invalid' = r.invalid
            /\ raised' = "none"
        /\ context' = context_after_families(context, i)
        /\ UNCHANGED cbId
        /\ UNCHANGED othersOfClash

ValidateNodeIdsUniqueInstanceClash_process ==
    \E i \in 1..Len(context), active \in BOOLEAN :
        /\ PluginRunsOn(context[i].data)
        /\ active => FamiliesHaveRoom(i)
        /\ \E r \in {Clash_get_invalid(context, i, cbId)} :
            /\ op' = IF active THEN "process" ELSE "process_inactive"
            /\ inst' = i
            /\ log' = IF active THEN r.log ELSE <<>>
            /\ invalid' = IF active THEN r.invalid ELSE <<>>
            /\ raised' = IF active /\ r.invalid # <<>>
                         THEN "PublishValidationError" ELSE "none"
        /\ context' = IF active THEN context_after_families(context, i)
                      ELSE context
        /\ UNCHANGED cbId
        /\ UNCHANGED othersOfClash

ClashNodes == {NodeA, NodeB, NodeBC, NodeBO}

\* The members of the two instances: |b and its orig shape may be in both.
ClashMembers1 ==
    {SelectSeq(<<NodeA, NodeB, NodeBO>>, LAMBDA n : n \in m) :
     m \in SUBSET {NodeA, NodeB, NodeBO}} \ {<<>>}

ClashMembers2 ==
    {SelectSeq(<<NodeB, NodeBC, NodeBO>>, LAMBDA n : n \in m) :
     m \in SUBSET {NodeB, NodeBC, NodeBO}} \ {<<>>}

\* The data of the second instance: a model by its family alone (enabled or
\* disabled), a model by its families list alone, a look, and a model of
\* another folder.
ClashData2 ==
    {InstanceData("model", FALSE, <<>>, "/assets/hero", TRUE),
     InstanceData("model", FALSE, <<>>, "/assets/hero", FALSE),
     InstanceData("", TRUE, <<"model">>, "/assets/hero", TRUE),
     InstanceData("look", TRUE, <<"look">>, "/assets/hero", TRUE),
     InstanceData("model", TRUE, <<"model">>, "/assets/prop", TRUE)}

NoPublish == Publish(FALSE, FALSE, "", FALSE, FALSE, <<>>)

InitClash ==
    /\ cbId \in [ClashNodes -> 0..MaxId]
    /\ cbId[NodeBO] = 1    \* never read: ls leaves intermediate shapes out
    /\ context \in {<<Instance(m1, ModelData), Instance(m2, d2)>> :
                    m1 \in ClashMembers1, m2 \in ClashMembers2, d2 \in ClashData2}
    /\ lastPublish = NoPublish
    /\ op = "init"
    /\ inst = 0
    /\ log = <<>>
    /\ yielded = <<>>
    /\ invalid = <<>>
    /\ node_by_path = <<>>
    /\ edits = <<>>
    /\ relevant_edits = {}
    /\ requests = <<>>
    /\ NoAnimation
    /\ NoUnknown
    /\ NoLastVersion
    /\ NoRender
    /\ NoAutoTx
    /\ NoProxy
    /\ NoLayout
    /\ raised = "none"

NextClash ==
    \/ ValidateNodeIdsUniqueInstanceClash_get_invalid
    \/ ValidateNodeIdsUniqueInstanceClash_process

SpecClash == InitClash /\ [][NextClash]_vars

-----------------------------------------------------------------------------
(* The clash validator's inputs, stated apart from its loops *)

\* The members of instance j that the validator looks at and that carry an id.
ValidMembers(j) ==
    {n \in Range(context[j].members) :
        /\ NodeKind(n) \in {"transform", "shape"}
        /\ ~IsIntermediate(n)
        /\ cbId[n] # 0}

\* Instance j is another instance of the model family with i's folderPath.
IsOtherModel(i, j) ==
    /\ j # i
    /\ "model" \in Range(context[j].data.families) \cup {context[j].data.family}
    /\ context[j].data.folderPath = context[i].data.folderPath

OtherModels(i) == {j \in 1..Len(context) : IsOtherModel(i, j)}

ForeignMembers(i) == UNION {ValidMembers(j) : j \in OtherModels(i)}

ClashQueried == op \in {"get_invalid", "process"} /\ inst # 0

\* The conflicts the last call reported: <<member paths, other paths>>.
Conflicts ==
    LET hit(l) == l[2] = "ID for node clashes"
        ls == SelectSeq(log, hit)
    IN  [k \in 1..Len(ls) |-> ls[k][3]]

Carriers(nodes, id) == {n \in nodes : cbId[n] = id}

\* No node is a member of two instances.
MembersDisjoint ==
    \A j, k \in 1..Len(context) :
        j # k => Range(context[j].members) \cap Range(context[k].members) = {}

(* C6 as stated: over the node paths the detector groups (the members of the
   instance under test and of the other model instances), no conflict is
   reported when no id is carried by more than one path, and an id carried
   by two or more paths is reported as exactly one conflict listing them.
   Stated for the contexts whose instances share no node. *)
C6_EveryDuplicateIdReported ==
    ClashQueried /\ MembersDisjoint =>
        LET looked == ValidMembers(inst) \cup ForeignMembers(inst)
        IN  /\ (\A id \in 1..MaxId : Cardinality(Carriers(looked, id)) <= 1)
                   => Conflicts = <<>>
            /\ \A id \in 1..MaxId :
                   Cardinality(Carriers(looked, id)) >= 2 =>
                       Cardinality({k \in 1..Len(Conflicts) :
                           Carriers(looked, id) \subseteq
                               Range(Conflicts[k][1]) \cup Range(Conflicts[k][2])}) = 1

(* C6 amended: a conflict is reported for an id exactly when a member of the
   instance under test and a member of another model instance of the same
   folderPath both carry it; there is exactly one conflict for such an id,
   and it lists the instance's paths and the other instances' paths with
   that id.  An id carried by several paths of one side only is no conflict. *)
C6_CrossInstanceConflicts ==
    ClashQueried =>
        LET clashing == {id \in 1..MaxId :
                            /\ Carriers(ValidMembers(inst), id) # {}
                            /\ Carriers(ForeignMembers(inst), id) # {}}
        IN  /\ Len(Conflicts) = Cardinality(clashing)
            /\ \A id \in clashing :
                   \E k \in 1..Len(Conflicts) :
                       /\ Range(Conflicts[k][1]) = Carriers(ValidMembers(inst), id)
                       /\ Range(Conflicts[k][2]) = Carriers(ForeignMembers(inst), id)

C6_Witness ==
    /\ op = "get_invalid"
    /\ MembersDisjoint
    /\ Len(Conflicts) = 1
    /\ Cardinality(Range(Conflicts[1][1])) = 2
    /\ Conflicts[1][2] # <<>>

(* C7: every node get_invalid returns is a member of the instance under
   test; a node that is a member of other instances only is never returned. *)
C7_InvalidAreOwnMembers ==
    ClashQueried => Range(invalid) \subseteq Range(context[inst].members)

C7_Witness ==
    /\ op = "get_invalid"
    /\ invalid # <<>>
    /\ \E n \in ForeignMembers(inst) \ Range(context[inst].members) :
           \E m \in Range(invalid) : cbId[m] = cbId[n]

(* C8 as stated: a member node is returned if and only if its id is carried
   by a transform or shape node of another instance of the model family with
   the same folderPath.  Stated for the contexts whose instances share no
   node. *)
C8_AnyMemberAnyShape ==
    ClashQueried /\ MembersDisjoint =>
        \A n \in Range(context[inst].members) :
            n \in Range(invalid) <=>
                /\ cbId[n] # 0
                /\ \E j \in OtherModels(inst) :
                       \E m \in Range(context[j].members) :
                           /\ NodeKind(m) \in {"transform", "shape"}
                           /\ cbId[m] = cbId[n]

(* C8 amended: a member node is returned if and only if it is a
   non-intermediate transform or shape that carries an id and that id is
   carried by a non-intermediate transform or shape member of another
   instance of the model family with the same folderPath, enabled for
   publishing or not; with no such other instance nothing is returned. *)
C8_InvalidIffForeignCarrier ==
    ClashQueried =>
        /\ \A n \in Range(context[inst].members) :
               n \in Range(invalid) <=>
                   /\ n \in ValidMembers(inst)
                   /\ \E m \in ForeignMembers(inst) : cbId[m] = cbId[n]
        /\ OtherModels(inst) = {} => invalid = <<>>

C8_Witness ==
    /\ op = "get_invalid"
    /\ invalid # <<>>
    /\ \E j \in OtherModels(inst) : ~context[j].data.active
    /\ \E n \in Range(context[inst].members) :
           /\ IsIntermediate(n)
           /\ \E m \in ForeignMembers(inst) : cbId[m] = cbId[n]

-----------------------------------------------------------------------------
(* validate_strip_namspaces_uniqueness.py *)

\* The indexes of s that hold the character sep.
IndexesOf(s, sep) == {i \in 1..Len(s) : s[i] = sep}

Min(S) == CHOOSE x \in S : \A y \in S : x <= y
Max(S) == CHOOSE x \in S : \A y \in S : x >= y

\* s.split(sep) for a one-character sep
RECURSIVE StrSplit(_, _)
StrSplit(s, sep) ==
    IF IndexesOf(s, sep) = {} THEN <<s>>
    ELSE LET i == Min(IndexesOf(s, sep))
         IN  <<SubSeq(s, 1, i - 1)>> \o StrSplit(SubSeq(s, i + 1, Len(s)), sep)

\* s.rsplit(sep, 1)[-1]
StrRSplitLast(s, sep) ==
    IF IndexesOf(s, sep) = {} THEN s
    ELSE SubSeq(s, Max(IndexesOf(s, sep)) + 1, Len(s))

\* s.rsplit(sep, 1)[0]
StrRSplitFirst(s, sep) ==
    IF IndexesOf(s, sep) = {} THEN s
    ELSE SubSeq(s, 1, Max(IndexesOf(s, sep)) - 1)

\* sep.join(parts)
RECURSIVE StrJoin(_, _)
StrJoin(parts, sep) ==
    IF parts = <<>> THEN <<>>
    ELSE IF Len(parts) = 1 THEN parts[1]
    ELSE parts[1] \o <<sep>> \o StrJoin(Tail(parts), sep)

strip_namespace(path) ==
    LET names == StrSplit(path, "|")
    IN  StrJoin([i \in 1..Len(names) |-> StrRSplitLast(names[i], ":")], "|")

\* node_by_path[strip_namespace(node)].append(node), over the nodes
RECURSIVE group_by_stripped(_, _, _)
group_by_stripped(nodes, i, acc) ==
    IF i > Len(nodes) THEN acc
    ELSE LET path == strip_namespace(nodes[i])
             old == IF DictHas(acc, path) THEN DictGet(acc, path) ELSE <<>>
         IN  group_by_stripped(nodes, i + 1, DictSet(acc, path, Append(old, nodes[i])))

\* len(node_by_path.get(parent, []))
len_at(by_path, parent) ==
    IF DictHas(by_path, parent) THEN Len(DictGet(by_path, parent)) ELSE 0

\* len(invalid_nodes) > 1: any entry that has more than one path is invalid
is_clash_over_two(invalid_nodes) == Len(invalid_nodes) > 2
is_clash(invalid_nodes) == Len(invalid_nodes) > 1

\* The loop of get_invalid over node_by_path.items().
RECURSIVE strip_clashes(_, _, _)
strip_clashes(by_path, k, acc) ==
    IF k > Len(by_path) THEN acc
    ELSE LET path == by_path[k][1]
             invalid_nodes == by_path[k][2]
             parent == StrRSplitFirst(path, "|")
         IN  IF is_clash(invalid_nodes)
             THEN strip_clashes(by_path, k + 1,
                      [log |-> acc.log
                           \o (IF len_at(by_path, parent) < 2
                               THEN <<LogRecord("warning", "Clashing nodes at path", path)>>
                               ELSE <<>>)
                           \o [j \in 1..Len(invalid_nodes) |->
                                  LogRecord("debug", "node", invalid_nodes[j])],
                       invalid |-> acc.invalid \o invalid_nodes])
             ELSE strip_clashes(by_path, k + 1, acc)

\* get_invalid(instance) of ValidateStripNamespacesUniqueness
Strip_get_invalid(instance) ==
    LET by_path == group_by_stripped(instance.members, 1, <<>>)
        r == strip_clashes(by_path, 1, [log |-> <<>>, invalid |-> <<>>])
    IN  [node_by_path |-> by_path, log |-> r.log, invalid |-> r.invalid]

ValidateStripNamespacesUniqueness_get_invalid ==
    \E i \in 1..Len(context) :
        /\ \E r \in {Strip_get_invalid(context[i])} :
            /\ op' = "get_invalid"
            /\ inst' = i
            /\ log' = r.log
            /\ invalid' = r.invalid
            /\ node_by_path' = r.node_by_path
            /\ raised' = "none"
        /\ UNCHANGED context
        /\ UNCHANGED othersOfStrip

\* The (plug-in, attribute) pairs is_stripping_namespaces looks for, in order.
strip_settings ==
    <<<<"ExtractAnimation", "stripNamespaces">>,
      <<"ExtractAlembic", "stripNamespaces">>,
      <<"ExtractMayaUsdAnim", "stripNamespaces">>,
      <<"ExtractMayaUsdModel", "stripNamespaces">>,
      <<"ExtractMayaUsdPointcache", "stripNamespaces">>,
      <<"ExtractMayaUsd", "stripNamespaces">>>>

\* The loop of is_stripping_namespaces from the k-th setting on.
RECURSIVE find_strip_setting(_, _)
find_strip_setting(publish_attributes, k) ==
    IF k > Len(strip_settings) THEN [state |-> FALSE, log |-> <<>>]
    ELSE LET plugin_name == strip_settings[k][1]
             attr_name == strip_settings[k][2]
         IN  IF DictHas(publish_attributes, plugin_name)
             THEN LET values == DictGet(publish_attributes, plugin_name)
                      state == IF DictHas(values, attr_name)
                               THEN DictGet(values, attr_name) ELSE TRUE
                  IN  [state |-> state,
                       log |-> <<LogRecord("debug",
                                           "Found plug-in attribute values for",
                                           <<plugin_name, attr_name, state>>)>>]
             ELSE find_strip_setting(publish_attributes, k + 1)

\* instance.data.get("publish_attributes", {})
publish_attributes_of(data) ==
    IF "publish_attributes" \in DOMAIN data THEN data.publish_attributes ELSE <<>>

is_stripping_namespaces(instance) ==
    find_strip_setting(publish_attributes_of(instance.data), 1)

\* process(instance) of ValidateStripNamespacesUniqueness, past is_active
Strip_process(instance) ==
    LET stripping == is_stripping_namespaces(instance)
        r == Strip_get_invalid(instance)
    IN  IF stripping.state
        THEN [node_by_path |-> <<>>, log |-> stripping.log,
              invalid |-> <<>>, raised |-> "none"]
        ELSE [node_by_path |-> r.node_by_path,
              log |-> stripping.log \o r.log,
              invalid |-> r.invalid,
              raised |-> IF r.invalid # <<>>
                         THEN "PublishValidationError" ELSE "none"]

ValidateStripNamespacesUniqueness_process ==
    \E i \in 1..Len(context), active \in BOOLEAN :
        /\ \E r \in {Strip_process(context[i])} :
            /\ op' = IF active THEN "process" ELSE "process_inactive"
            /\ inst' = i
            /\ log' = IF active THEN r.log ELSE <<>>
            /\ invalid' = IF active THEN r.invalid ELSE <<>>
            /\ node_by_path' = IF active THEN r.node_by_path ELSE <<>>
            /\ raised' = IF active THEN r.raised ELSE "none"
        /\ UNCHANGED context
        /\ UNCHANGED othersOfStrip

\* The node paths of the scene: the two examples of strip_namespace's
\* docstring, two referenced groups with a child each, and a group of the
\* scene itself.
DocPath1 ==
    <<"|", "a", "a", ":", "b", "b", ":", "c", "c",
      "|", "h", "e", "l", "l", "o", ":", "w", "o", "r", "l", "d",
      "|", "f", "o", "o", ":", "b", "a", "r">>
DocPath2 ==
    <<"|", "n", "a", "m", "e", "s", "p", "a", "c", "e", ":", "g", "r", "p",
      "|", "n", "a", "m", "e", "s", "p", "a", "c", "e", ":",
      "f", "o", "o", "b", "a", "r">>
NsGrp == <<"|", "n", "s", ":", "g", "r", "p">>
NsGrpA == NsGrp \o <<"|", "n", "s", ":", "a">>
Ns2Grp == <<"|", "n", "s", "2", ":", "g", "r", "p">>
Ns2GrpA == Ns2Grp \o <<"|", "n", "s", "2", ":", "a">>
Grp == <<"|", "g", "r", "p">>

\* Two object sets: cmds.ls(long=True) lists a node that is not in the DAG by
\* its name, without "|".
NsSet == <<"n", "s", ":", "s">>
Ns2Set == <<"n", "s", "2", ":", "s">>

StripNodes ==
    <<DocPath1, DocPath2, NsGrp, NsGrpA, Ns2Grp, Ns2GrpA, Grp, NsSet, Ns2Set>>

Reverse(seq) == [i \in 1..Len(seq) |-> seq[Len(seq) + 1 - i]]

\* The instance's members as cmds.ls lists them: any of the nodes, in the
\* order of StripNodes or in the reverse order.
StripMembers ==
    UNION {{SelectSeq(StripNodes, LAMBDA n : n \in m),
            SelectSeq(Reverse(StripNodes), LAMBDA n : n \in m)} :
           m \in SUBSET Range(StripNodes)} \ {<<>>}

StripData == InstanceData("pointcache", TRUE, <<"pointcache">>, "/assets/hero", TRUE)

\* The publish attribute values found on the instance: none at all, the
\* toggle of one extractor on, off or left at its default, those of two
\* extractors that disagree, and those of a plug-in without the toggle.
StripPublishAttributes ==
    {<<>>,
     <<<<"ExtractAlembic", <<<<"stripNamespaces", TRUE>>>>>>>>,
     <<<<"ExtractAlembic", <<<<"stripNamespaces", FALSE>>>>>>>>,
     <<<<"ExtractAlembic", <<>>>>>>,
     <<<<"ExtractMayaUsd", <<<<"stripNamespaces", FALSE>>>>>>,
       <<"ExtractAnimation", <<<<"stripNamespaces", TRUE>>>>>>>>,
     <<<<"CollectAnimationOutputGeometry", <<<<"active", TRUE>>>>>>>>}

\* instance.data with and without the "publish_attributes" key
StripDatas ==
    {StripData} \cup
    {StripData @@ [publish_attributes |-> pa] : pa \in StripPublishAttributes}

InitStrip ==
    /\ cbId = <<>>
    /\ context \in {<<Instance(m, data)>> : m \in StripMembers, data \in StripDatas}
    /\ lastPublish = NoPublish
    /\ op = "init"
    /\ inst = 0
    /\ log = <<>>
    /\ yielded = <<>>
    /\ invalid = <<>>
    /\ node_by_path = <<>>
    /\ edits = <<>>
    /\ relevant_edits = {}
    /\ requests = <<>>
    /\ NoAnimation
    /\ NoUnknown
    /\ NoLastVersion
    /\ NoRender
    /\ NoAutoTx
    /\ NoProxy
    /\ NoLayout
    /\ raised = "none"

NextStrip ==
    \/ ValidateStripNamespacesUniqueness_get_invalid
    \/ ValidateStripNamespacesUniqueness_process

SpecStrip == InitStrip /\ [][NextStrip]_vars

-----------------------------------------------------------------------------
StripQueried == op = "get_invalid" /\ inst # 0

\* The stripped path get_invalid filed the member under.
FiledUnder(node) ==
    {node_by_path[k][1] : k \in {j \in 1..Len(node_by_path) :
                                    node \in Range(node_by_path[j][2])}}

(* C9: strip_namespace returns the namespace-free names of the path joined
   by "|": "cc|world|bar" for "|aa:bb:cc|hello:world|foo:bar" and
   "grp|foobar" for "|namespace:grp|namespace:foobar". *)
C9_DocstringResults ==
    StripQueried =>
        /\ DocPath1 \in Range(context[inst].members) =>
               FiledUnder(DocPath1) =
                   {<<"c", "c", "|", "w", "o", "r", "l", "d", "|", "b", "a", "r">>}
        /\ DocPath2 \in Range(context[inst].members) =>
               FiledUnder(DocPath2) =
                   {<<"g", "r", "p", "|", "f", "o", "o", "b", "a", "r">>}

(* What the code returns for the two paths: the leading "|" stays. *)
C9_LeadingPipeKept ==
    StripQueried =>
        /\ DocPath1 \in Range(context[inst].members) =>
               FiledUnder(DocPath1) =
                   {<<"|", "c", "c", "|", "w", "o", "r", "l", "d", "|", "b", "a", "r">>}
        /\ DocPath2 \in Range(context[inst].members) =>
               FiledUnder(DocPath2) =
                   {<<"|", "g", "r", "p", "|", "f", "o", "o", "b", "a", "r">>}

\* Whether the export of the instance strips namespaces: the toggle of the
\* first extractor of strip_settings with attribute values on the instance,
\* on when that extractor has no value for it, off when there is none.
StrippingEnabled(data) ==
    LET pa == publish_attributes_of(data)
        found == {k \in 1..Len(strip_settings) :
                     \E j \in 1..Len(pa) : pa[j][1] = strip_settings[k][1]}
    IN  /\ found # {}
        /\ LET first == CHOOSE k \in found : \A l \in found : k <= l
               values == DictGet(pa, strip_settings[first][1])
           IN  \A j \in 1..Len(values) :
                   values[j][1] = strip_settings[first][2] => values[j][2]

\* Two members of the instance collapse to the same stripped path.
MembersCollapse(i) ==
    \E m, n \in Range(context[i].members) :
        m # n /\ strip_namespace(m) = strip_namespace(n)

StripProcessed == op = "process" /\ inst # 0

(* C11: process, when the validator is active, raises a validation error
   whenever namespace stripping is enabled for the export and two members
   collapse to the same stripped path, and does not raise when stripping
   is not enabled. *)
C11_RaisesWhenStrippingClashes ==
    StripProcessed =>
        /\ StrippingEnabled(context[inst].data) /\ MembersCollapse(inst)
               => raised = "PublishValidationError"
        /\ ~StrippingEnabled(context[inst].data) => raised = "none"

(* What process does: it returns at once when stripping is enabled and
   raises on a clash only when stripping is not enabled. *)
C11_RaisesOnlyWhenNotStripping ==
    StripProcessed =>
        (raised = "PublishValidationError"
            <=> ~StrippingEnabled(context[inst].data) /\ MembersCollapse(inst))

(* C10: get_invalid returns exactly the members that share their stripped
   path with another member, each once; a member whose stripped path is its
   own alone is never returned, and "|ns:grp|ns:a" with "|ns2:grp|ns2:a" is
   one collision of size 2. *)
C10_InvalidAreTheCollisions ==
    StripQueried =>
        LET members == Range(context[inst].members)
        IN  /\ Range(invalid) =
                   {n \in members :
                       \E m \in members :
                           m # n /\ strip_namespace(m) = strip_namespace(n)}
            /\ Len(invalid) = Cardinality(Range(invalid))
            /\ members = {NsGrpA, Ns2GrpA} =>
                   /\ Range(invalid) = {NsGrpA, Ns2GrpA}
                   /\ Len(node_by_path) = 1
                   /\ Len(node_by_path[1][2]) = 2

C10_Witness ==
    /\ StripQueried
    /\ Range(context[inst].members) = {NsGrpA, Ns2GrpA, DocPath1}
    /\ Range(invalid) = {NsGrpA, Ns2GrpA}

-----------------------------------------------------------------------------
(* inventory/remove_camera_transform_reference_edits.py *)

\* Reference edits are kept this many at most.
MaxEdits == 3

\* The attributes no reference edit is allowed to, as the set literal of
\* get_disallowed_camera_edits evaluates: "rotateAxisZ" "rotateOrder" has no
\* comma between the two literals and is one string.
attributes ==
    {<<"t", "r", "a", "n", "s", "l", "a", "t", "e">>,
     <<"t", "r", "a", "n", "s", "l", "a", "t", "e", "X">>,
     <<"t", "r", "a", "n", "s", "l", "a", "t", "e", "Y">>,
     <<"t", "r", "a", "n", "s", "l", "a", "t", "e", "Z">>,
     <<"r", "o", "t", "a", "t", "e">>,
     <<"r", "o", "t", "a", "t", "e", "X">>,
     <<"r", "o", "t", "a", "t", "e", "Y">>,
     <<"r", "o", "t", "a", "t", "e", "Z">>,
     <<"s", "c", "a", "l", "e">>,
     <<"s", "c", "a", "l", "e", "X">>,
     <<"s", "c", "a", "l", "e", "Y">>,
     <<"s", "c", "a", "l", "e", "Z">>,
     <<"s", "h", "e", "a", "r">>,
     <<"s", "h", "e", "a", "r", "X", "Y">>,
     <<"s", "h", "e", "a", "r", "X", "Z">>,
     <<"s", "h", "e", "a", "r", "Y", "Z">>,
     <<"r", "o", "t", "a", "t", "e", "A", "x", "i", "s">>,
     <<"r", "o", "t", "a", "t", "e", "A", "x", "i", "s", "X">>,
     <<"r", "o", "t", "a", "t", "e", "A", "x", "i", "s", "Y">>,
     <<"r", "o", "t", "a", "t", "e", "A", "x", "i", "s", "Z", "r", "o", "t", "a", "t", "e", "O", "r", "d", "e", "r">>,
     <<"o", "f", "f", "s", "e", "t", "P", "a", "r", "e", "n", "t", "M", "a", "t", "r", "i", "x">>,
     <<"f", "o", "c", "a", "l", "L", "e", "n", "g", "t", "h">>}

\* The edit commands both functions loop over.
edit_commands == <<"connectAttr", "disconnectAttr", "setAttr">>
edit_commands_only_setAttr == <<"setAttr">>
remove_edit_commands == edit_commands

\* One edit of the log: its command, whether it applied, and its plugs
\* (<<plug>> for setAttr, <<source, destination>> otherwise).
Edit(cmd, successful, plugs) ==
    [cmd |-> cmd, successful |-> successful, plugs |-> plugs]

\* cmds.referenceQuery(ref, editCommand=edit_command, editAttrs=True,
\*                     editNodes=True, successfulEdits=True, failedEdits=False)
RECURSIVE referenceQuery_edits(_, _)
referenceQuery_edits(edit_log, edit_command) ==
    IF edit_log = <<>> THEN <<>>
    ELSE (IF Head(edit_log).cmd = edit_command /\ Head(edit_log).successful
          THEN Head(edit_log).plugs ELSE <<>>)
         \o referenceQuery_edits(Tail(edit_log), edit_command)

\* lib.pairwise(iterable): s -> (s0, s1), (s2, s3), ...
pairwise(seq) ==
    [k \in 1..(Len(seq) \div 2) |-> <<seq[2 * k - 1], seq[2 * k]>>]

\* What the loop over pairwise(edits) adds to all_edits.
connected_both_sides(pairs) ==
    {pairs[k][1] : k \in 1..Len(pairs)} \cup {pairs[k][2] : k \in 1..Len(pairs)}
connected(pairs) == {pairs[k][2] : k \in 1..Len(pairs)}

all_edits_of(edit_log) ==
    UNION {IF edit_commands[c] \in {"connectAttr", "disconnectAttr"}
           THEN connected(pairwise(referenceQuery_edits(edit_log, edit_commands[c])))
           ELSE Range(referenceQuery_edits(edit_log, edit_commands[c])) :
           c \in 1..Len(edit_commands)}

\* s.lstrip(ch)
RECURSIVE StrLStrip(_, _)
StrLStrip(s, ch) ==
    IF s # <<>> /\ Head(s) = ch THEN StrLStrip(Tail(s), ch) ELSE s

\* cmds.referenceQuery(ref, namespace=True)
referenceQuery_namespace == <<":", "c">>

ref_namespace == StrLStrip(referenceQuery_namespace, ":")

\* node, attr = plug.split(".", 1)
plug_node(plug) == SubSeq(plug, 1, Min(IndexesOf(plug, ".")) - 1)
plug_attr(plug) == SubSeq(plug, Min(IndexesOf(plug, ".")) + 1, Len(plug))

\* node.rsplit("|", 1)[-1].rsplit(":", 1)[0]
node_namespace(node) == StrRSplitFirst(StrRSplitLast(node, "|"), ":")

\* The nodes of the scene that edits are made on.
CamT == <<"|", "c", ":", "c", "a", "m">>
CamS == <<"|", "c", ":", "c", "a", "m", "|", "c", ":", "c", "a", "m", "S", "h", "a", "p", "e">>
Joint == <<"|", "c", ":", "j", "n", "t">>
OtherT == <<"|", "o", ":", "c", "a", "m">>
BareC == <<"|", "c">>

\* cmds.nodeType(node)
nodeType(node) ==
    IF node = CamS THEN "camera"
    ELSE IF node = Joint THEN "joint"
    ELSE "transform"

\* The three tests of the filter loop on one plug.
is_relevant_any_attribute(plug) ==
    /\ node_namespace(plug_node(plug)) = ref_namespace
    /\ nodeType(plug_node(plug)) \in {"transform", "camera"}
is_relevant(plug) ==
    /\ node_namespace(plug_node(plug)) = ref_namespace
    /\ nodeType(plug_node(plug)) \in {"transform", "camera"}
    /\ plug_attr(plug) \in attributes

get_disallowed_camera_edits(edit_log) ==
    {plug \in all_edits_of(edit_log) : is_relevant(plug)}

\* sorted(plugs) of a set of strings
RECURSIVE sorted_descending(_)
sorted_descending(plugs) ==
    IF plugs = {} THEN <<>>
    ELSE LET m == CHOOSE p \in plugs : \A q \in plugs : q = p \/ StrLess(q, p)
         IN  <<m>> \o sorted_descending(plugs \ {m})
RECURSIVE sorted_ascending(_)
sorted_ascending(plugs) ==
    IF plugs = {} THEN <<>>
    ELSE LET m == CHOOSE p \in plugs : \A q \in plugs : q = p \/ StrLess(p, q)
         IN  <<m>> \o sorted_ascending(plugs \ {m})
sorted(plugs) == sorted_ascending(plugs)

\* cmds.referenceEdit(plug, removeEdits=True, editCommand=edit_command,
\*                    successfulEdits=True, failedEdits=True,
\*                    onReferenceNode=ref): the edits of that command on the
\* plug leave the log.  Whether an edit that has the plug as its source
\* leaves too is the host's choice, source_too.
referenceEdit_removeEdits(edit_log, plug, edit_command, source_too) ==
    SelectSeq(edit_log,
              LAMBDA e : ~(/\ e.cmd = edit_command
                           /\ \/ e.plugs[Len(e.plugs)] = plug
                              \/ source_too /\ e.plugs[1] = plug))

\* The loops of remove_disallowed_camera_edits from the k-th sorted plug and
\* its c-th edit command on.
RECURSIVE remove_loop(_, _, _, _, _)
remove_loop(plugs, k, c, source_too, acc) ==
    IF k > Len(plugs) THEN acc
    ELSE IF c > Len(remove_edit_commands)
    THEN remove_loop(plugs, k + 1, 1, source_too, acc)
    ELSE remove_loop(plugs, k, c + 1, source_too,
             [edits |-> referenceEdit_removeEdits(
                            acc.edits, plugs[k], remove_edit_commands[c], source_too),
              requests |-> Append(acc.requests, <<plugs[k], remove_edit_commands[c]>>),
              log |-> IF c = 1
                      THEN Append(acc.log,
                                  LogRecord("print", "Removing reference edits to", plugs[k]))
                      ELSE acc.log])

remove_disallowed_camera_edits(edit_log, source_too) ==
    LET plugs == get_disallowed_camera_edits(edit_log)
    IN  IF plugs = {}
        THEN [plugs |-> plugs, edits |-> edit_log, requests |-> <<>>,
              log |-> <<LogRecord("print", "Reference is ok", "ref")>>]
        ELSE [plugs |-> plugs] @@
             remove_loop(sorted(plugs), 1, 1, source_too,
                         [edits |-> edit_log, requests |-> <<>>, log |-> <<>>])

GetDisallowedCameraEdits ==
    /\ op' = "get_disallowed_camera_edits"
    /\ relevant_edits' = get_disallowed_camera_edits(edits)
    /\ requests' = <<>>
    /\ log' = <<>>
    /\ raised' = "none"
    /\ UNCHANGED edits
    /\ UNCHANGED othersOfCameraEdits

RemoveDisallowedCameraEdits ==
    \E source_too \in BOOLEAN :
        /\ \E r \in {remove_disallowed_camera_edits(edits, source_too)} :
            /\ op' = "remove_disallowed_camera_edits"
            /\ relevant_edits' = r.plugs
            /\ edits' = r.edits
            /\ requests' = r.requests
            /\ log' = r.log
            /\ raised' = "none"
        /\ UNCHANGED othersOfCameraEdits

\* The plugs of the edits.
PlugTx == CamT \o <<".", "t", "r", "a", "n", "s", "l", "a", "t", "e", "X">>
PlugRo == CamT \o <<".", "r", "o", "t", "a", "t", "e", "O", "r", "d", "e", "r">>
PlugVis == CamT \o <<".", "v", "i", "s", "i", "b", "i", "l", "i", "t", "y">>
PlugFl == CamS \o <<".", "f", "o", "c", "a", "l", "L", "e", "n", "g", "t", "h">>
PlugJointTx == Joint \o <<".", "t", "r", "a", "n", "s", "l", "a", "t", "e", "X">>
PlugOtherTx == OtherT \o <<".", "t", "r", "a", "n", "s", "l", "a", "t", "e", "X">>
PlugBareTx == BareC \o <<".", "t", "r", "a", "n", "s", "l", "a", "t", "e", "X">>

\* The edits a log is made of.
CameraEdits ==
    {Edit("setAttr", TRUE, <<p>>) :
        p \in {PlugTx, PlugRo, PlugVis, PlugFl, PlugJointTx, PlugOtherTx, PlugBareTx}}
    \cup {Edit("setAttr", FALSE, <<PlugTx>>)}
    \cup {Edit("connectAttr", TRUE, pair) :
            pair \in {<<PlugOtherTx, PlugTx>>, <<PlugTx, PlugOtherTx>>,
                      <<PlugVis, PlugFl>>, <<PlugOtherTx, PlugRo>>}}
    \cup {Edit("disconnectAttr", TRUE, pair) :
            pair \in {<<PlugOtherTx, PlugTx>>, <<PlugTx, PlugFl>>}}

EditLogs == UNION {[1..n -> CameraEdits] : n \in 0..MaxEdits}

InitCameraEdits ==
    /\ cbId = <<>>
    /\ context = <<>>
    /\ lastPublish = NoPublish
    /\ op = "init"
    /\ inst = 0
    /\ log = <<>>
    /\ yielded = <<>>
    /\ invalid = <<>>
    /\ node_by_path = <<>>
    /\ edits \in EditLogs
    /\ relevant_edits = {}
    /\ requests = <<>>
    /\ NoAnimation
    /\ NoUnknown
    /\ NoLastVersion
    /\ NoRender
    /\ NoAutoTx
    /\ NoProxy
    /\ NoLayout
    /\ raised = "none"

NextCameraEdits ==
    \/ GetDisallowedCameraEdits
    \/ RemoveDisallowedCameraEdits

SpecCameraEdits == InitCameraEdits /\ [][NextCameraEdits]_vars

-----------------------------------------------------------------------------
\* The attributes no reference edit is allowed to.
DisallowedAttributes ==
    {<<"t", "r", "a", "n", "s", "l", "a", "t", "e">>,
     <<"t", "r", "a", "n", "s", "l", "a", "t", "e", "X">>,
     <<"t", "r", "a", "n", "s", "l", "a", "t", "e", "Y">>,
     <<"t", "r", "a", "n", "s", "l", "a", "t", "e", "Z">>,
     <<"r", "o", "t", "a", "t", "e">>,
     <<"r", "o", "t", "a", "t", "e", "X">>,
     <<"r", "o", "t", "a", "t", "e", "Y">>,
     <<"r", "o", "t", "a", "t", "e", "Z">>,
     <<"s", "c", "a", "l", "e">>,
     <<"s", "c", "a", "l", "e", "X">>,
     <<"s", "c", "a", "l", "e", "Y">>,
     <<"s", "c", "a", "l", "e", "Z">>,
     <<"s", "h", "e", "a", "r">>,
     <<"s", "h", "e", "a", "r", "X", "Y">>,
     <<"s", "h", "e", "a", "r", "X", "Z">>,
     <<"s", "h", "e", "a", "r", "Y", "Z">>,
     <<"r", "o", "t", "a", "t", "e", "A", "x", "i", "s">>,
     <<"r", "o", "t", "a", "t", "e", "A", "x", "i", "s", "X">>,
     <<"r", "o", "t", "a", "t", "e", "A", "x", "i", "s", "Y">>,
     <<"r", "o", "t", "a", "t", "e", "A", "x", "i", "s", "Z">>,
     <<"r", "o", "t", "a", "t", "e", "O", "r", "d", "e", "r">>,
     <<"o", "f", "f", "s", "e", "t", "P", "a", "r", "e", "n", "t", "M", "a", "t", "r", "i", "x">>,
     <<"f", "o", "c", "a", "l", "L", "e", "n", "g", "t", "h">>}

\* The plug an edit is made to: that of a setAttr, the destination of a
\* connectAttr or disconnectAttr.
EditTarget(e) == e.plugs[Len(e.plugs)]

\* The node of the plug is a transform or camera in the reference's namespace.
OnReferencedCamera(plug) ==
    /\ SubSeq(StrRSplitLast(plug_node(plug), "|"), 1, 2) = <<"c", ":">>
    /\ nodeType(plug_node(plug)) \in {"transform", "camera"}

CameraQueried ==
    op \in {"get_disallowed_camera_edits", "remove_disallowed_camera_edits"}

(* C12: no plug returned by get_disallowed_camera_edits targets an attribute
   outside the disallowed attributes, and none is on a node that is neither
   a transform nor a camera. *)
C12_OnlyDisallowedOnCameras ==
    \A plug \in relevant_edits :
        /\ plug_attr(plug) \in DisallowedAttributes
        /\ nodeType(plug_node(plug)) \in {"transform", "camera"}

C12_Witness ==
    /\ op = "get_disallowed_camera_edits"
    /\ relevant_edits # {}
    /\ \E k \in 1..Len(edits) :
        /\ edits[k].successful
        /\ EditTarget(edits[k]) \in {PlugVis, PlugJointTx}

(* C13: a successful setAttr edit, or the destination of a successful
   connectAttr or disconnectAttr edit, to a disallowed attribute of a
   transform or camera in the reference's namespace is always returned by
   get_disallowed_camera_edits. *)
C13_EveryDisallowedEditReturned ==
    op = "get_disallowed_camera_edits" =>
        \A k \in 1..Len(edits) :
            /\ edits[k].successful
            /\ OnReferencedCamera(EditTarget(edits[k]))
            /\ plug_attr(EditTarget(edits[k])) \in DisallowedAttributes
            => EditTarget(edits[k]) \in relevant_edits

(* C14: a plug that occurs in the edit log only as the source of connectAttr
   or disconnectAttr edits is never returned. *)
C14_SourceSideIgnored ==
    op = "get_disallowed_camera_edits" =>
        \A plug \in relevant_edits :
            \E k \in 1..Len(edits) : EditTarget(edits[k]) = plug

C14_Witness ==
    /\ op = "get_disallowed_camera_edits"
    /\ \E k \in 1..Len(edits) :
        /\ edits[k].successful
        /\ Len(edits[k].plugs) = 2
        /\ edits[k].plugs[1] = PlugTx
    /\ PlugTx \notin relevant_edits
    /\ relevant_edits # {}

\* The removal requests for the plugs, three for each in the order given.
RequestsFor(plugs) ==
    [n \in 1..(3 * Len(plugs)) |->
        <<plugs[((n - 1) \div 3) + 1], edit_commands[((n - 1) % 3) + 1]>>]

(* C15: remove_disallowed_camera_edits issues, for each violating plug in
   ascending plug order, one removal request for each of connectAttr,
   disconnectAttr and setAttr, none for any other plug, and none at all when
   the reference has no violation. *)
C15_ThreeRequestsPerViolation ==
    [][op' = "remove_disallowed_camera_edits" =>
        \E plugs \in {sorted_ascending(get_disallowed_camera_edits(edits))} :
            /\ requests' = RequestsFor(plugs)
            /\ \A k \in 1..(Len(plugs) - 1) : StrLess(plugs[k], plugs[k + 1])]_vars

C15_Witness ==
    /\ op = "remove_disallowed_camera_edits"
    /\ Len(requests) = 6
    /\ edits # <<>>

(* C16: after remove_disallowed_camera_edits, get_disallowed_camera_edits
   returns the empty set, and a second run raises no error, issues no
   removal request and leaves the edit log as it is. *)
C16_SecondRemoveIsNoOp ==
    [][/\ op' = "remove_disallowed_camera_edits" =>
            get_disallowed_camera_edits(edits') = {}
       /\ op = "remove_disallowed_camera_edits"
            /\ op' = "remove_disallowed_camera_edits" =>
            /\ requests' = <<>>
            /\ edits' = edits
            /\ raised' = "none"]_vars

C16_Witness ==
    /\ op = "remove_disallowed_camera_edits"
    /\ requests # <<>>
    /\ Len(edits) = 1

-----------------------------------------------------------------------------
(* validate_animation_content.py: repair *)

\* The object set holds this many members at most.
MaxMembers == 3

\* s.endswith(suffix)
StrEndsWith(s, suffix) ==
    /\ Len(s) >= Len(suffix)
    /\ SubSeq(s, Len(s) - Len(suffix) + 1, Len(s)) = suffix

Digits == {"0", "1", "2", "3", "4", "5", "6", "7", "8", "9"}

\* re.compile("^.*" + name + "\[\d+\]$").match(s), name being the escaped
\* ".associatedNode" or ".placeHolderList"
MatchesIndexed(s, name) ==
    \E i \in 1..Len(s) :
        /\ i + Len(name) + 1 <= Len(s) - 1
        /\ SubSeq(s, i, i + Len(name)) = name \o <<"[">>
        /\ \A j \in (i + Len(name) + 1)..(Len(s) - 1) : s[j] \in Digits
        /\ s[Len(s)] = "]"

associated_plug_regex(plug) == MatchesIndexed(plug, <<".", "a", "s", "s", "o", "c", "i", "a", "t", "e", "d", "N", "o", "d", "e">>)
placeholder_regex_never(member) == FALSE
placeholder_regex(member) == MatchesIndexed(member, <<".", "p", "l", "a", "c", "e", "H", "o", "l", "d", "e", "r", "L", "i", "s", "t">>)

\* The reference nodes and the nodes of their files.
RefA == <<"a", "R", "N">>
RefB == <<"b", "R", "N">>
GrpA == <<"|", "a", ":", "g", "r", "p">>
OutA == <<"a", ":", "o", "u", "t", "_", "S", "E", "T">>
CtlA == <<"a", ":", "c", "o", "n", "t", "r", "o", "l", "s", "_", "S", "E", "T">>
GrpB == <<"|", "b", ":", "g", "r", "p">>
OutB == <<"b", ":", "o", "u", "t", "_", "S", "E", "T">>
CtlB == <<"b", ":", "c", "o", "n", "t", "r", "o", "l", "s", "_", "S", "E", "T">>
\* A foster parent of reference b: a node of the scene itself.
FosterB == <<"|", "b", "R", "N", "f", "o", "s", "t", "e", "r", "P", "a", "r", "e", "n", "t", "1">>
\* Entries of the object set left behind for members of an unloaded reference.
PhA0 == RefA \o <<".", "p", "l", "a", "c", "e", "H", "o", "l", "d", "e", "r", "L", "i", "s", "t", "[", "0", "]">>
PhA1 == RefA \o <<".", "p", "l", "a", "c", "e", "H", "o", "l", "d", "e", "r", "L", "i", "s", "t", "[", "1", "]">>
PhB0 == RefB \o <<".", "p", "l", "a", "c", "e", "H", "o", "l", "d", "e", "r", "L", "i", "s", "t", "[", "0", "]">>

References == {RefA, RefB}

\* cmds.nodeType(node)
anim_nodeType(node) ==
    IF node \in References THEN "reference"
    ELSE IF node \in {OutA, CtlA, OutB, CtlB} THEN "objectSet"
    ELSE "transform"

\* cmds.referenceQuery(member, isNodeReferenced=True) and, when it is,
\* cmds.referenceQuery(member, referenceNode=True)
referenceNode_of(member) ==
    IF member \in {GrpA, OutA, CtlA} THEN RefA
    ELSE IF member \in {GrpB, OutB, CtlB} THEN RefB
    ELSE <<>>

\* cmds.listConnections(node, plugs=True, destination=True, source=False,
\*                      type="reference")
listConnections_reference(node) ==
    IF node = GrpA THEN <<RefA \o <<".", "a", "s", "s", "o", "c", "i", "a", "t", "e", "d", "N", "o", "d", "e", "[", "0", "]">>>>
    ELSE IF node = GrpB THEN <<RefB \o <<".", "a", "s", "s", "o", "c", "i", "a", "t", "e", "d", "N", "o", "d", "e", "[", "0", "]">>>>
    ELSE IF node = FosterB THEN <<RefB \o <<".", "f", "o", "s", "t", "e", "r", "P", "a", "r", "e", "n", "t">>>>
    ELSE <<>>

\* The node a member entry of a set is on: cmds.sets(query=True, nodesOnly=True)
entry_node(member) ==
    IF IndexesOf(member, ".") = {} THEN member
    ELSE SubSeq(member, 1, Min(IndexesOf(member, ".")) - 1)

sets_nodesOnly(members) == [k \in 1..Len(members) |-> entry_node(members[k])]

RECURSIVE Flatten(_)
Flatten(seqs) ==
    IF seqs = <<>> THEN <<>> ELSE Head(seqs) \o Flatten(Tail(seqs))

\* The three detections of get_references_in_set.
references_by_associatedNode(set_members) ==
    LET connected_reference_plugs ==
            Flatten([k \in 1..Len(set_members) |->
                        listConnections_reference(set_members[k])])
        matching == SelectSeq(connected_reference_plugs,
                        LAMBDA plug :
                            /\ associated_plug_regex(plug)
                            /\ anim_nodeType(entry_node(plug)) = "reference")
    IN  [k \in 1..Len(matching) |-> entry_node(matching[k])]

references_in_members(set_members) ==
    SelectSeq(set_members, LAMBDA member : anim_nodeType(member) = "reference")

references_of_members(set_members) ==
    LET referenced == SelectSeq(set_members,
                          LAMBDA member : referenceNode_of(member) # <<>>)
    IN  [k \in 1..Len(referenced) |-> referenceNode_of(referenced[k])]

get_references_in_set_members_first(members) ==
    LET set_members == sets_nodesOnly(members)
    IN  references_in_members(set_members)
        \o references_by_associatedNode(set_members)
        \o references_of_members(set_members)

get_references_in_set(members) ==
    LET set_members == sets_nodesOnly(members)
    IN  references_by_associatedNode(set_members)
        \o references_in_members(set_members)
        \o references_of_members(set_members)

\* cmds.ls(nodes, type="objectSet") of a list with nodes
ls_objectSet(nodes) ==
    SelectSeq(nodes, LAMBDA node : anim_nodeType(node) = "objectSet")

\* The loop of _find_sets: <<>> stands for None.
RECURSIVE find_sets_loop(_, _, _, _)
find_sets_loop(nodes, k, out_set, controls_set) ==
    IF k > Len(nodes) \/ (out_set # <<>> /\ controls_set # <<>>)
    THEN <<out_set, controls_set>>
    ELSE IF out_set = <<>> /\ StrEndsWith(nodes[k], <<"o", "u", "t", "_", "S", "E", "T">>)
    THEN find_sets_loop(nodes, k + 1, nodes[k], controls_set)
    ELSE IF controls_set = <<>> /\ StrEndsWith(nodes[k], <<"c", "o", "n", "t", "r", "o", "l", "s", "_", "S", "E", "T">>)
    THEN find_sets_loop(nodes, k + 1, out_set, nodes[k])
    ELSE find_sets_loop(nodes, k + 1, out_set, controls_set)

_find_sets(nodes) == find_sets_loop(ls_objectSet(nodes), 1, <<>>, <<>>)

\* all(sets) of the pair _find_sets returns
all_sets_any(sets) == sets[1] # <<>> \/ sets[2] # <<>>
all_sets(sets) == sets[1] # <<>> /\ sets[2] # <<>>

\* The member a placeHolderList entry stands for.
placeholder_target(member) ==
    IF member = PhA0 THEN OutA
    ELSE IF member = PhA1 THEN CtlA
    ELSE IF member = PhB0 THEN OutB
    ELSE <<>>

\* cmds.file(loadReference=ref_node): the nodes of the file come into the
\* scene and a placeHolderList entry of the object set whose node is among
\* them becomes that node; an entry whose node is not stays as it is.
RECURSIVE members_after_load(_, _, _, _)
members_after_load(members, k, ref_node, content) ==
    IF k > Len(members) THEN <<>>
    ELSE LET member == members[k]
             rest == members_after_load(members, k + 1, ref_node, content)
             target == placeholder_target(member)
         IN  IF /\ placeholder_regex(member)
                /\ entry_node(member) = ref_node
                /\ target \in Range(content[ref_node])
             THEN (IF target \in Range(members) THEN <<>> ELSE <<target>>) \o rest
             ELSE <<member>> \o rest

\* The loop of repair that loads the references that are not loaded.
RECURSIVE load_references(_, _, _)
load_references(references_unique, k, acc) ==
    IF k > Len(references_unique) THEN acc
    ELSE LET ref_node == references_unique[k]
         IN  IF ~acc.loaded[ref_node]
             THEN load_references(references_unique, k + 1,
                      [loaded |-> [acc.loaded EXCEPT ![ref_node] = TRUE],
                       members |-> members_after_load(acc.members, 1, ref_node,
                                                      acc.content),
                       content |-> acc.content,
                       loaded_references |-> Append(acc.loaded_references, ref_node),
                       log |-> Append(acc.log,
                                   LogRecord("info", "Loading reference node", ref_node))])
             ELSE load_references(references_unique, k + 1, acc)

\* cmds.sets(sets, forceElement=objset)
RECURSIVE sets_forceElement(_, _)
sets_forceElement(members, sets) ==
    IF sets = <<>> THEN members
    ELSE sets_forceElement(
             IF Head(sets) \in Range(members) THEN members
             ELSE Append(members, Head(sets)),
             Tail(sets))

\* The loop of repair over the references from the k-th on.
RECURSIVE search_references(_, _, _, _)
search_references(references, k, content, acc) ==
    IF k > Len(references) THEN acc
    ELSE LET ref_node == references[k]
             sets == _find_sets(content[ref_node])
         IN  IF ref_node \in acc.processed
             THEN search_references(references, k + 1, content, acc)
             ELSE IF all_sets(sets)
             THEN [acc EXCEPT !.queried = Append(@, ref_node),
                              !.added = sets,
                              !.members = sets_forceElement(@, sets),
                              !.log = Append(@, LogRecord("info",
                                          "Found and adding sets", sets))]
             ELSE search_references(references, k + 1, content,
                      [acc EXCEPT !.queried = Append(@, ref_node),
                                  !.processed = @ \cup {ref_node}])

\* The cleanup of repair: cmds.sets(remove, remove=objset)
remove_placeholders(members) ==
    LET remove == SelectSeq(members, placeholder_regex)
    IN  [members |-> SelectSeq(members, LAMBDA member : ~placeholder_regex(member)),
         log |-> IF remove # <<>>
                 THEN <<LogRecord("debug", "Removing placeHolderList entries", remove)>>
                 ELSE <<>>]

\* repair(instance) of ValidateAnimationContent
Animation_repair(members, loaded, content) ==
    LET references == get_references_in_set(members)
        references_unique == sorted_ascending(Range(references))
        l == load_references(references_unique, 1,
                 [loaded |-> loaded, members |-> members, content |-> content,
                  loaded_references |-> <<>>,
                  log |-> IF Len(references_unique) > 1
                          THEN <<LogRecord("warning",
                                       "Found more than one reference node",
                                       references_unique)>>
                          ELSE <<>>])
        set_members == sets_nodesOnly(l.members)
        start == [queried |-> <<>>, added |-> <<>>, members |-> l.members,
                  processed |-> {}, log |-> <<>>]
        f == IF ~all_sets(_find_sets(set_members))
             THEN search_references(references, 1, content,
                      [start EXCEPT !.log =
                          (IF l.loaded_references # <<>>
                           THEN <<LogRecord("debug",
                                    "Still no out_SET and controls_SET in instance",
                                    <<>>)>>
                           ELSE <<>>)
                          \o <<LogRecord("debug",
                                   "Searching for sets in the reference nodes",
                                   references_unique)>>])
             ELSE start
        c == remove_placeholders(f.members)
    IN  [members |-> c.members, loaded |-> l.loaded, queried |-> f.queried,
         added |-> f.added, log |-> l.log \o f.log \o c.log]

\* cmds.sets and cmds.listConnections are given the members of the object
\* set, which the model keeps from being the empty list.
ValidateAnimationContent_repair ==
    /\ objsetMembers # <<>>
    /\ \E r \in {Animation_repair(objsetMembers, refLoaded, refContent)} :
        /\ op' = "repair"
        /\ objsetMembers' = r.members
        /\ refLoaded' = r.loaded
        /\ queried' = r.queried
        /\ addedSets' = r.added
        /\ log' = r.log
        /\ raised' = "none"
    /\ UNCHANGED refContent
    /\ UNCHANGED othersOfAnimation

\* The sequences without repetition of at most n elements of S.
RECURSIVE Arrangements(_, _)
Arrangements(S, n) ==
    IF n = 0 THEN {<<>>}
    ELSE {<<>>} \cup UNION {{<<x>> \o t : t \in Arrangements(S \ {x}, n - 1)} : x \in S}

\* What the files of the two references hold.
RefContents ==
    {[r \in References |-> IF r = RefA THEN a ELSE b] :
        a \in {<<GrpA, OutA, CtlA>>, <<GrpA, OutA>>, <<GrpA>>},
        b \in {<<GrpB, CtlB, OutB>>, <<GrpB, CtlB>>, <<GrpB>>}}

\* What the object set can hold: placeHolderList entries, a node of the
\* scene itself, and nodes of the references that are loaded.
MemberEntries(loaded, content) ==
    {PhA0, PhA1, PhB0, FosterB}
    \cup {node \in {GrpA, OutA, CtlA, GrpB, CtlB} :
            \E r \in References : loaded[r] /\ node \in Range(content[r])}

InitAnimation ==
    /\ cbId = <<>>
    /\ context = <<>>
    /\ lastPublish = NoPublish
    /\ op = "init"
    /\ inst = 0
    /\ log = <<>>
    /\ yielded = <<>>
    /\ invalid = <<>>
    /\ node_by_path = <<>>
    /\ edits = <<>>
    /\ relevant_edits = {}
    /\ requests = <<>>
    /\ refContent \in RefContents
    /\ refLoaded \in [References -> BOOLEAN]
    /\ objsetMembers \in
           Arrangements(MemberEntries(refLoaded, refContent), MaxMembers) \ {<<>>}
    /\ queried = <<>>
    /\ addedSets = <<>>
    /\ NoUnknown
    /\ NoLastVersion
    /\ NoRender
    /\ NoAutoTx
    /\ NoProxy
    /\ NoLayout
    /\ raised = "none"

NextAnimation == ValidateAnimationContent_repair

SpecAnimation == InitAnimation /\ [][NextAnimation]_vars

-----------------------------------------------------------------------------
\* Whether the file of the reference holds both marker sets.
SuppliesBoth(ref_node) ==
    /\ \E node \in Range(refContent[ref_node]) :
           anim_nodeType(node) = "objectSet"
           /\ StrEndsWith(node, <<"o", "u", "t", "_", "S", "E", "T">>)
    /\ \E node \in Range(refContent[ref_node]) :
           anim_nodeType(node) = "objectSet"
           /\ StrEndsWith(node, <<"c", "o", "n", "t", "r", "o", "l", "s", "_", "S", "E", "T">>)

\* The references of the members in detection order: by back-link, then the
\* reference nodes among the members, then the owners of referenced members.
RECURSIVE WithoutRepeats(_)
WithoutRepeats(seq) ==
    IF seq = <<>> THEN <<>>
    ELSE LET init == WithoutRepeats(SubSeq(seq, 1, Len(seq) - 1))
         IN  IF seq[Len(seq)] \in Range(init) THEN init
             ELSE Append(init, seq[Len(seq)])

BackLinked(members) ==
    LET linked == SelectSeq(members, LAMBDA m : m \in {GrpA, GrpB})
    IN  [k \in 1..Len(linked) |-> IF linked[k] = GrpA THEN RefA ELSE RefB]

AmongMembers(members) ==
    LET held == SelectSeq(members,
                    LAMBDA m : m \in {PhA0, PhA1, PhB0} \cup References)
    IN  [k \in 1..Len(held) |->
            IF held[k] \in {PhA0, PhA1, RefA} THEN RefA ELSE RefB]

Owners(members) ==
    LET owned == SelectSeq(members,
                     LAMBDA m : m \in {GrpA, OutA, CtlA, GrpB, OutB, CtlB})
    IN  [k \in 1..Len(owned) |->
            IF owned[k] \in {GrpA, OutA, CtlA} THEN RefA ELSE RefB]

Candidates(members) ==
    WithoutRepeats(BackLinked(members) \o AmongMembers(members) \o Owners(members))

IsPrefix(s, t) == Len(s) <= Len(t) /\ SubSeq(t, 1, Len(s)) = s

(* C17: repair examines the candidate references in detection order, each
   distinct one at most once, and stops at the first whose nodes hold both
   an out_SET and a controls_SET: no later reference is queried. *)
C17_SearchInDetectionOrder ==
    [][op' = "repair" =>
        /\ IsPrefix(queried', Candidates(objsetMembers))
        /\ \A k \in 1..(Len(queried') - 1) : ~SuppliesBoth(queried'[k])
        /\ addedSets' = <<>> /\ queried' # <<>> =>
               queried' = Candidates(objsetMembers)]_vars

C17_Witness ==
    /\ op = "repair"
    /\ queried = <<RefB, RefA>>
    /\ addedSets # <<>>

(* C18: repair adds marker sets to the object set only as the pair of one
   reference: the out_SET and controls_SET of the reference the search
   ended on, both of them then members; when no candidate reference holds
   both sets nothing is added. *)
C18_AddsOnlyPairOfOneReference ==
    [][op' = "repair" =>
        /\ addedSets' # <<>> =>
            /\ queried' # <<>>
            /\ Len(addedSets') = 2
            /\ StrEndsWith(addedSets'[1], <<"o", "u", "t", "_", "S", "E", "T">>)
            /\ StrEndsWith(addedSets'[2],
                   <<"c", "o", "n", "t", "r", "o", "l", "s", "_", "S", "E", "T">>)
            /\ Range(addedSets') \subseteq Range(refContent[queried'[Len(queried')]])
            /\ Range(addedSets') \subseteq Range(objsetMembers')
        /\ (\A r \in Range(Candidates(objsetMembers)) : ~SuppliesBoth(r)) =>
               addedSets' = <<>>
        /\ \A r \in References :
               ~SuppliesBoth(r) => Range(addedSets') \cap Range(refContent[r]) = {}]_vars

C18_Witness ==
    /\ op = "repair"
    /\ addedSets = <<OutB, CtlB>>
    /\ Len(queried) = 2

\* The entries of the object set that are placeHolderList entries.
IsPlaceholder(member) ==
    \E i \in 1..(Len(member) - 17) :
        /\ SubSeq(member, i, i + 16) =
               <<".", "p", "l", "a", "c", "e", "H", "o", "l", "d", "e", "r",
                 "L", "i", "s", "t", "[">>
        /\ member[Len(member)] = "]"

(* C19: after repair the object set has no placeHolderList entry, whether or
   not the marker sets were found, and every member that was not such an
   entry is still a member. *)
C19_PlaceholdersRemovedOnly ==
    [][op' = "repair" =>
        /\ \A member \in Range(objsetMembers') : ~IsPlaceholder(member)
        /\ \A member \in Range(objsetMembers) :
               ~IsPlaceholder(member) => member \in Range(objsetMembers')]_vars

C19_Witness ==
    /\ op = "repair"
    /\ addedSets = <<>>
    /\ \E k \in 1..Len(log) : log[k][2] = "Removing placeHolderList entries"
    /\ objsetMembers # <<>>

-----------------------------------------------------------------------------
(* validate_scene_unknown_nodes.py and validate_scene_unknown_plugins.py: repair *)

\* The unknown nodes: |u1 with its child |u1|u2, u3 and u4.
U1 == <<"|", "u", "1">>
U2 == <<"|", "u", "1", "|", "u", "2">>
U3 == <<"u", "3">>
U4 == <<"u", "4">>
UnknownNodesInOrder == <<U1, U2, U3, U4>>

\* The unknown plug-ins.
Mtoa == <<"m", "t", "o", "a">>
Turtle == <<"T", "u", "r", "t", "l", "e">>
StereoCamera == <<"s", "t", "e", "r", "e", "o", "C", "a", "m", "e", "r", "a">>

\* ValidateSceneUnknownPlugins.ignore
ignore == {StereoCamera}

\* cmds.unknownNode(node, query=True, plugin=True)
unknownNode_plugin(node) ==
    IF node = U1 THEN Mtoa
    ELSE IF node \in {U2, U3} THEN Turtle
    ELSE StereoCamera

\* cmds.delete(node) takes the DAG nodes below the node with it.
IsBelow(node, parent) ==
    /\ Len(node) > Len(parent) + 1
    /\ SubSeq(node, 1, Len(parent) + 1) = parent \o <<"|">>

\* force_delete(node): nothing when the node does not exist; RuntimeError
\* out of cmds.lockNode or cmds.delete when Maya refuses.
force_delete(nodes, rejects, node) ==
    IF node \notin Range(nodes)
    THEN [nodes |-> nodes, error |-> "none", attempted |-> FALSE]
    ELSE IF node \in rejects
    THEN [nodes |-> nodes, error |-> "RuntimeError", attempted |-> TRUE]
    ELSE [nodes |-> SelectSeq(nodes, LAMBDA n : n # node /\ ~IsBelow(n, node)),
          error |-> "none", attempted |-> TRUE]

\* except RuntimeError as exc: cls.log.error(exc)
except_nothing(acc, level, what) == [acc EXCEPT !.raised = "RuntimeError"]
except_RuntimeError(acc, level, what) ==
    [acc EXCEPT !.log = Append(@, LogRecord(level, "RuntimeError", what))]

\* try: force_delete(node) ... with what it leaves in acc
try_force_delete(acc, rejects, node) ==
    LET r == force_delete(acc.nodes, rejects, node)
        after == [acc EXCEPT !.nodes = r.nodes,
                             !.attempts = IF r.attempted
                                          THEN Append(@, <<"delete", node>>)
                                          ELSE @]
    IN  IF r.error = "RuntimeError"
        THEN except_RuntimeError(after, "error", node)
        ELSE after

\* The loop of ValidateSceneUnknownNodes.repair over get_invalid(context).
RECURSIVE delete_unknown_nodes(_, _, _, _)
delete_unknown_nodes(listed, k, rejects, acc) ==
    IF k > Len(listed) \/ acc.raised # "none" THEN acc
    ELSE delete_unknown_nodes(listed, k + 1, rejects,
                              try_force_delete(acc, rejects, listed[k]))

UnknownNodes_repair(nodes, plugins, rejects) ==
    delete_unknown_nodes(nodes, 1, rejects,
        [nodes |-> nodes, plugins |-> plugins, attempts |-> <<>>,
         log |-> <<>>, raised |-> "none"])

\* sorted(cmds.unknownPlugin(query=True, list=True) or []) without the ignored
UnknownPlugins_get_invalid(plugins) ==
    SelectSeq(sorted_ascending(Range(plugins)), LAMBDA plugin : plugin \notin ignore)

\* The inner loop of ValidateSceneUnknownPlugins.repair over
\* cmds.ls(type="unknown") for one plug-in.
RECURSIVE delete_nodes_of_plugin(_, _, _, _, _)
delete_nodes_of_plugin(listed, k, plugin, rejects, acc) ==
    IF k > Len(listed) \/ acc.raised # "none" THEN acc
    ELSE LET node == listed[k]
         IN  IF node \notin Range(acc.nodes)
             THEN delete_nodes_of_plugin(listed, k + 1, plugin, rejects,
                      [acc EXCEPT !.log =
                          Append(@, LogRecord("debug", "Already deleted", node))])
             ELSE IF unknownNode_plugin(node) # plugin
             THEN delete_nodes_of_plugin(listed, k + 1, plugin, rejects, acc)
             ELSE delete_nodes_of_plugin(listed, k + 1, plugin, rejects,
                      try_force_delete(
                          [acc EXCEPT !.log =
                              Append(@, LogRecord("info", "Deleting", node))],
                          rejects, node))

\* cmds.unknownPlugin(plugin, remove=True) inside its try: Maya refuses a
\* plug-in that is still in use by a node, or for a reason of its own.
try_remove_plugin(acc, rejects, plugin) ==
    LET after == [acc EXCEPT !.attempts = Append(@, <<"remove", plugin>>)]
    IN  IF \/ plugin \in rejects
           \/ \E n \in Range(acc.nodes) : unknownNode_plugin(n) = plugin
        THEN except_RuntimeError(after, "warning", plugin)
        ELSE [after EXCEPT !.plugins = SelectSeq(@, LAMBDA p : p # plugin)]

\* The outer loop of ValidateSceneUnknownPlugins.repair.
RECURSIVE remove_unknown_plugins(_, _, _, _)
remove_unknown_plugins(plugins, k, rejects, acc) ==
    IF k > Len(plugins) \/ acc.raised # "none" THEN acc
    ELSE LET start == [acc EXCEPT !.log =
                          Append(@, LogRecord("debug", "Removing unknown plugin",
                                              plugins[k]))]
             deleted == delete_nodes_of_plugin(start.nodes, 1, plugins[k],
                                               rejects, start)
         IN  remove_unknown_plugins(plugins, k + 1, rejects,
                 IF deleted.raised # "none" THEN deleted
                 ELSE try_remove_plugin(deleted, rejects, plugins[k]))

UnknownPlugins_repair(nodes, plugins, rejects) ==
    remove_unknown_plugins(UnknownPlugins_get_invalid(plugins), 1, rejects,
        [nodes |-> nodes, plugins |-> plugins, attempts |-> <<>>,
         log |-> <<>>, raised |-> "none"])

ValidateSceneUnknownNodes_repair ==
    /\ \E r \in {UnknownNodes_repair(unknownNodes, unknownPlugins, hostRejects)} :
        /\ op' = "repair_nodes"
        /\ unknownNodes' = r.nodes
        /\ attempts' = r.attempts
        /\ log' = r.log
        /\ raised' = r.raised
    /\ UNCHANGED <<unknownPlugins, hostRejects>>
    /\ UNCHANGED othersOfUnknown

ValidateSceneUnknownPlugins_repair ==
    /\ \E r \in {UnknownPlugins_repair(unknownNodes, unknownPlugins, hostRejects)} :
        /\ op' = "repair_plugins"
        /\ unknownNodes' = r.nodes
        /\ unknownPlugins' = r.plugins
        /\ attempts' = r.attempts
        /\ log' = r.log
        /\ raised' = r.raised
    /\ UNCHANGED hostRejects
    /\ UNCHANGED othersOfUnknown

\* A child exists only under its parent.
UnknownScenes ==
    {SelectSeq(UnknownNodesInOrder, LAMBDA n : n \in present) :
        present \in {P \in SUBSET Range(UnknownNodesInOrder) : U2 \in P => U1 \in P}}

InitUnknown ==
    /\ cbId = <<>>
    /\ context = <<>>
    /\ lastPublish = NoPublish
    /\ op = "init"
    /\ inst = 0
    /\ log = <<>>
    /\ yielded = <<>>
    /\ invalid = <<>>
    /\ node_by_path = <<>>
    /\ edits = <<>>
    /\ relevant_edits = {}
    /\ requests = <<>>
    /\ NoAnimation
    /\ unknownNodes \in UnknownScenes
    /\ unknownPlugins \in OrderedSubsets({Mtoa, Turtle, StereoCamera})
    /\ hostRejects \in SUBSET {U1, U3, Mtoa, Turtle}
    /\ attempts = <<>>
    /\ NoLastVersion
    /\ NoRender
    /\ NoAutoTx
    /\ NoProxy
    /\ NoLayout
    /\ raised = "none"

NextUnknown ==
    \/ ValidateSceneUnknownNodes_repair
    \/ ValidateSceneUnknownPlugins_repair

SpecUnknown == InitUnknown /\ [][NextUnknown]_vars

-----------------------------------------------------------------------------
\* The calls made hold one of the kind for the node or plug-in.
Attempted(made, kind, what) == \E k \in 1..Len(made) : made[k] = <<kind, what>>

\* The node went with a node above it that the repair deleted.
WentWithParent(made, node, before) ==
    \E k \in 1..Len(made) :
        /\ made[k][1] = "delete"
        /\ made[k][2] \in Range(before)
        /\ made[k][2] \notin hostRejects
        /\ IsBelow(node, made[k][2])

(* C20: in both repairs a failure of Maya to delete one unknown node or to
   remove one unknown plug-in is caught for that item only: the repair
   returns without raising, every other node and plug-in it is to handle is
   still attempted, and a node that no longer exists is skipped. *)
C20_FailuresCaughtPerItem ==
    [][/\ op' \in {"repair_nodes", "repair_plugins"} => raised' = "none"
       /\ op' = "repair_nodes" =>
            \A node \in Range(unknownNodes) :
                \/ Attempted(attempts', "delete", node)
                \/ WentWithParent(attempts', node, unknownNodes)
       /\ op' = "repair_plugins" =>
            /\ \A plugin \in Range(unknownPlugins) \ {StereoCamera} :
                   Attempted(attempts', "remove", plugin)
            /\ \A node \in Range(unknownNodes) :
                   unknownNode_plugin(node) \in Range(unknownPlugins) \ {StereoCamera}
                       => \/ Attempted(attempts', "delete", node)
                          \/ WentWithParent(attempts', node, unknownNodes)]_vars

C20_Witness ==
    /\ op = "repair_nodes"
    /\ hostRejects \cap {U1, U3} = {U3}
    /\ attempts = <<<<"delete", U1>>, <<"delete", U3>>, <<"delete", U4>>>>
    /\ unknownNodes = <<U3>>
    /\ \E k \in 1..Len(log) : log[k][2] = "RuntimeError"

-----------------------------------------------------------------------------
(* C30: ValidateNodeIdsUniqueInstanceClash.get_invalid is a read-only query:
   a call leaves instance.data of every instance in the context unchanged,
   and the families list of each instance keeps its elements and length. *)
C30_GetInvalidLeavesDataUnchanged ==
    [][op' \in {"get_invalid", "process"} =>
           \A j \in 1..Len(context) : context'[j].data = context[j].data]_vars

-----------------------------------------------------------------------------
\* The namespace of a node: what precedes the last ":" of its short name; a
\* short name without ":" has no namespace.
HasNamespace(node, namespace) ==
    LET short == StrRSplitLast(node, "|")
        colons == IndexesOf(short, ":")
    IN  /\ colons # {}
        /\ SubSeq(short, 1, Max(colons) - 1) = namespace

(* C25: every plug returned by get_disallowed_camera_edits is on a node whose
   namespace is the reference's namespace; an edit on a node outside it is
   never returned, a node with no namespace at all included, also when its
   short name equals the reference's namespace. *)
C25_ReturnedAreInNamespace ==
    \A plug \in relevant_edits : HasNamespace(plug_node(plug), <<"c">>)

\* What does hold: a returned plug is on a node in the namespace or on a node
\* without namespace that is named as the namespace.
C25_InNamespaceOrNamedAsIt ==
    \A plug \in relevant_edits :
        \/ HasNamespace(plug_node(plug), <<"c">>)
        \/ StrRSplitLast(plug_node(plug), "|") = <<"c">>

-----------------------------------------------------------------------------
\* The members of the queried instance that collapse to a stripped path.
Collapsing(path) ==
    {n \in Range(context[inst].members) : strip_namespace(n) = path}

\* How many members collapse to the direct parent of a stripped path; a
\* path of one name has no parent.
CollapsingToParent(path) ==
    LET bars == IndexesOf(path, "|")
    IN  IF bars = {} THEN 0
        ELSE Cardinality(Collapsing(SubSeq(path, 1, Max(bars) - 1)))

Warned(path) ==
    LogRecord("warning", "Clashing nodes at path", path) \in Range(log)

CollidingPaths ==
    {strip_namespace(n) : n \in {m \in Range(context[inst].members) :
                                    Cardinality(Collapsing(strip_namespace(m))) > 1}}

(* C24: get_invalid warns of a colliding stripped path exactly when fewer
   than two nodes collapse to its direct parent path, and the nodes of a
   collision that is not warned of are still in the returned list. *)
C24_WarnedIffParentDoesNotCollide ==
    StripQueried =>
        \A path \in CollidingPaths :
            /\ Warned(path) <=> CollapsingToParent(path) < 2
            /\ Collapsing(path) \subseteq Range(invalid)

\* What does hold: the rule for the paths of DAG nodes, and the invalid list.
C24_DagPathsWarnedIffParentDoesNotCollide ==
    StripQueried =>
        \A path \in CollidingPaths :
            /\ IndexesOf(path, "|") # {} =>
                   (Warned(path) <=> CollapsingToParent(path) < 2)
            /\ Collapsing(path) \subseteq Range(invalid)

-----------------------------------------------------------------------------
(* publish/validate_subset_last_version_task.py *)

\* Publishing passes are numbered 1..MaxPass.
MaxPass == 2

\* The caches of at most this many calls are followed.
MaxCalls == 3

\* A product of the database with its last version.
Product(id, name, folderId, version) ==
    [id |-> id, name |-> name, folderId |-> folderId, version |-> version]

\* A version: whether its attrib has a source, and the source.
Version(hasSource, source) ==
    [isNone |-> FALSE, hasSource |-> hasSource, source |-> source]

\* No version: None
NoVersion == [isNone |-> TRUE, hasSource |-> FALSE, source |-> <<>>]

\* The cache attribute: None or a dict.
NoCache == [isNone |-> TRUE, dict |-> <<>>]
CacheOf(dict) == [isNone |-> FALSE, dict |-> dict]

\* An instance of the context with what the validator reads of it; a task
\* that is not set is <<>>.
TaskInstance(family, active, task, folderId, productName, contextTask) ==
    [data |-> [family |-> family, active |-> active, task |-> task,
               folderEntity |-> [id |-> folderId],
               productName |-> productName],
     context |-> [data |-> [task |-> contextTask]]]

\* families of ValidateSubsetsLastVersionTask
lastVersion_families == {"animation", "pointcache"}

\* filter_instances_for_context_plugin(plugin, context): the indexes of the
\* enabled instances of the plug-in's families.
filter_instances_for_context_plugin(ctx) ==
    SelectSeq([i \in 1..Len(ctx) |-> i],
              LAMBDA i : /\ ctx[i].data.active
                         /\ ctx[i].data.family \in lastVersion_families)

\* get_products(names_by_folder_ids=...)
get_products(db, names_by_folder_id) ==
    SelectSeq(db, LAMBDA product :
                      product.name \in names_by_folder_id[product.folderId])

\* get_last_versions(product_ids=...): product id -> version
RECURSIVE get_last_versions(_, _, _)
get_last_versions(products, k, acc) ==
    IF k > Len(products) THEN acc
    ELSE get_last_versions(products, k + 1,
             IF products[k].version.isNone THEN acc
             ELSE DictSet(acc, products[k].id, products[k].version))

\* versions_by_product_id.get(product["id"])
version_of(versions_by_product_id, product) ==
    IF DictHas(versions_by_product_id, product.id)
    THEN DictGet(versions_by_product_id, product.id)
    ELSE NoVersion

\* populate_cache: the dict self.cache is left as.
populate_cache(ctx, db) ==
    LET instances == filter_instances_for_context_plugin(ctx)
        folder_ids == {ctx[instances[k]].data.folderEntity.id :
                       k \in 1..Len(instances)}
        product_names_by_folder_id ==
            [f \in {db[k].folderId : k \in 1..Len(db)} \cup folder_ids |->
                {ctx[instances[k]].data.productName :
                 k \in {j \in 1..Len(instances) :
                        ctx[instances[j]].data.folderEntity.id = f}}]
        products == get_products(db, product_names_by_folder_id)
        versions_by_product_id == get_last_versions(products, 1, <<>>)
    IN  IF instances = <<>> THEN <<>>
        ELSE IF products = <<>> THEN <<>>
        ELSE IF versions_by_product_id = <<>> THEN <<>>
        ELSE <<<<"version_by_asset_id_and_product_name",
                 [k \in 1..Len(products) |->
                     <<<<products[k].folderId, products[k].name>>,
                       version_of(versions_by_product_id, products[k])>>]>>>>

\* self.cache = ...: the assignment makes an attribute of the plug-in object
\* and leaves the attribute of the class as it is.
\* Mutant: the assignment is made on the class.
bind_cache_on_class(class_value, dict) ==
    [cls |-> CacheOf(dict), self |-> CacheOf(dict)]
bind_cache(class_value, dict) == [cls |-> class_value, self |-> CacheOf(dict)]

\* re.search("/work/([^/]+)/", source) matches at index i.
work_match_at(source, i) ==
    /\ i + 7 <= Len(source)
    /\ SubSeq(source, i, i + 5) = <<"/", "w", "o", "r", "k", "/">>
    /\ source[i + 6] # "/"
    /\ \E j \in (i + 7)..Len(source) : source[j] = "/"

\* match.group(1) of the leftmost match, <<>> when there is no match
re_search_work(source) ==
    LET starts == {i \in 1..Len(source) : work_match_at(source, i)}
    IN  IF starts = {} THEN <<>>
        ELSE LET i == Min(starts)
                 j == Min({j \in (i + 7)..Len(source) : source[j] = "/"})
             IN  SubSeq(source, i + 6, j - 1)

\* get_last_task_for_instance(instance) on a plug-in object whose self.cache
\* evaluates to found: the task (<<>> for None), the cache and the log.
get_last_task_for_instance(found, class_value, ctx, i, db) ==
    LET bound == IF found.isNone THEN bind_cache(class_value, populate_cache(ctx, db))
                 ELSE [cls |-> class_value, self |-> found]
        key == "version_by_asset_id_and_product_name"
        folder_id == ctx[i].data.folderEntity.id
        product_name == ctx[i].data.productName
        versions == DictGet(bound.self.dict, key)
        version == IF DictHas(versions, <<folder_id, product_name>>)
                   THEN DictGet(versions, <<folder_id, product_name>>)
                   ELSE NoVersion
        none(logged, exc) == [task |-> <<>>, cls |-> bound.cls, self |-> bound.self,
                              log |-> logged, raised |-> exc]
    IN  IF bound.self.dict = <<>> THEN none(<<>>, "none")
        ELSE IF ~DictHas(bound.self.dict, key) THEN none(<<>>, "KeyError")
        ELSE IF version.isNone
             THEN none(<<LogRecord("debug", "No existing version for", product_name)>>,
                       "none")
        ELSE IF ~version.hasSource THEN none(<<>>, "none")
        ELSE [task |-> re_search_work(version.source), cls |-> bound.cls,
              self |-> bound.self, log |-> <<>>, raised |-> "none"]

\* task == last_task
\* Mutant: the tasks are never found equal.
is_same_task_never(task, last_task) == FALSE
is_same_task(task, last_task) == task = last_task

\* process(instance) of ValidateSubsetsLastVersionTask on a new plug-in object
LastVersion_process(class_value, ctx, i, db) ==
    LET task == IF ctx[i].data.task # <<>> THEN ctx[i].data.task
                ELSE ctx[i].context.data.task
        r == get_last_task_for_instance(class_value, class_value, ctx, i, db)
        done(logged, exc) == [cls |-> r.cls, self |-> r.self,
                              log |-> r.log \o logged, raised |-> exc]
    IN  IF r.raised # "none" THEN done(<<>>, r.raised)
        ELSE IF r.task = <<>>
             THEN done(<<LogRecord("debug", "No last task found.", <<>>)>>, "none")
        ELSE IF is_same_task(task, r.task)
             THEN done(<<LogRecord("debug", "Last task", r.task)>>, "none")
        ELSE done(<<LogRecord("debug", "Last task", r.task)>>,
                  "PublishValidationError")

\* pyblish runs process(instance) on a new object of the plug-in class, for
\* an enabled instance of the plug-in's families.
ValidateSubsetsLastVersionTask_process ==
    \E i \in 1..Len(context), active \in BOOLEAN :
        /\ context[i].data.active
        /\ context[i].data.family \in lastVersion_families
        /\ active => Len(cacheLog) < MaxCalls
        /\ inst' = i
        /\ IF active
           THEN \E r \in {LastVersion_process(cls_cache, context, i, database)} :
                    /\ op' = "process"
                    /\ log' = r.log
                    /\ raised' = r.raised
                    /\ cls_cache' = r.cls
                    /\ self_cache' = r.self
                    /\ cacheLog' = Append(cacheLog,
                                       [pass |-> publishPass, found |-> cls_cache,
                                        used |-> r.self])
           ELSE /\ op' = "process_inactive"
                /\ log' = <<>>
                /\ raised' = "none"
                /\ self_cache' = cls_cache
                /\ UNCHANGED <<cls_cache, cacheLog>>
        /\ UNCHANGED <<context, database, publishPass>>
        /\ UNCHANGED othersOfLastVersion

\* The source of a workfile of a task.
WorkfileOf(task) ==
    <<"/", "p", "/", "w", "o", "r", "k", "/">> \o task \o <<"/", "s">>

TaskAnim == <<"a", "n", "i", "m">>
TaskLayout == <<"l", "a", "y", "o", "u", "t">>

\* A version of the product is published from a task.
published(db, k, task) ==
    [db EXCEPT ![k].version = Version(TRUE, WorkfileOf(task))]

\* The pass ends; a version is published to the database before the next
\* pass starts.  The plug-in class stays loaded.
NextPublishingPass ==
    /\ publishPass < MaxPass
    /\ publishPass' = publishPass + 1
    /\ \E k \in 1..Len(database), task \in {TaskAnim, TaskLayout} :
        /\ database' = published(database, k, task)
        /\ database' # database
    /\ op' = "new_pass"
    /\ inst' = 0
    /\ log' = <<>>
    /\ raised' = "none"
    /\ self_cache' = NoCache
    /\ UNCHANGED <<context, cls_cache, cacheLog>>
    /\ UNCHANGED othersOfLastVersion

\* Sources: workfiles of two tasks, a published file, a path with two
\* "/work/" segments, one whose segment is empty, and a Windows path.
LastVersionSources ==
    {WorkfileOf(TaskAnim), WorkfileOf(TaskLayout),
     <<"/", "p", "/", "p", "u", "b", "/", "s">>,
     <<"/", "w", "o", "r", "k", "/", "p">> \o WorkfileOf(TaskAnim),
     <<"/", "p", "/", "w", "o", "r", "k", "/", "/", "s">>,
     <<"/", "p", "/", "w", "o", "r", "k", "/", "a", "n", "i", "m">>}

LastVersions ==
    {NoVersion, Version(FALSE, <<>>)} \cup {Version(TRUE, s) : s \in LastVersionSources}

\* The products pcA of folder 1 and of folder 2, either of them there or not.
Databases ==
    {row1 \o row2 :
        row1 \in {<<>>} \cup {<<Product(1, "pcA", 1, v)>> : v \in LastVersions},
        row2 \in {<<>>, <<Product(2, "pcA", 2, NoVersion)>>,
                  <<Product(2, "pcA", 2, Version(TRUE, WorkfileOf(TaskLayout)))>>}}

\* A pointcache of folder 1, alone or with an instance of folder 2 that is
\* a pointcache or a model, enabled or not.
LastVersionContexts ==
    {<<TaskInstance("pointcache", TRUE, t, 1, "pcA", ct)>> \o second :
        t \in {TaskAnim, TaskLayout, <<>>},
        ct \in {TaskAnim, <<>>},
        second \in {<<>>} \cup
            {<<TaskInstance(f, a, TaskAnim, 2, "pcA", ct2)>> :
                f \in {"pointcache", "model"}, a \in BOOLEAN, ct2 \in {TaskAnim}}}

InitLastVersion ==
    /\ cbId = <<>>
    /\ context \in LastVersionContexts
    /\ lastPublish = NoPublish
    /\ op = "init"
    /\ inst = 0
    /\ log = <<>>
    /\ yielded = <<>>
    /\ invalid = <<>>
    /\ node_by_path = <<>>
    /\ edits = <<>>
    /\ relevant_edits = {}
    /\ requests = <<>>
    /\ NoAnimation
    /\ NoUnknown
    /\ database \in Databases
    /\ cls_cache = NoCache
    /\ self_cache = NoCache
    /\ publishPass = 1
    /\ cacheLog = <<>>
    /\ NoRender
    /\ NoAutoTx
    /\ NoProxy
    /\ NoLayout
    /\ raised = "none"

NextLastVersion ==
    \/ ValidateSubsetsLastVersionTask_process
    \/ NextPublishingPass

SpecLastVersion == InitLastVersion /\ [][NextLastVersion]_vars

-----------------------------------------------------------------------------
(* C21: the last-version cache is scoped to one publishing pass: every
   get_last_task_for_instance finds the cache unpopulated (None), so no
   cache populated in an earlier pass answers it, and the cache it uses is
   built from the database as it is at the call. *)
C21_CacheScopedToPass ==
    /\ \A k \in 1..Len(cacheLog) : cacheLog[k].found.isNone
    /\ op = "process" =>
           self_cache = CacheOf(populate_cache(context, database))

\* Two calls in different passes whose caches hold versions and differ.
C21_Witness ==
    \E k, l \in 1..Len(cacheLog) :
        /\ cacheLog[k].pass < cacheLog[l].pass
        /\ cacheLog[k].used.dict # <<>>
        /\ cacheLog[l].used.dict # <<>>
        /\ cacheLog[k].used # cacheLog[l].used

\* The task the instance is published from.
CurrentTask(i) ==
    IF context[i].data.task # <<>> THEN context[i].data.task
    ELSE context[i].context.data.task

\* The "/work/<task>/" segments of a source: <<start, end>> indexes of the task.
WorkSegments(source) ==
    {seg \in (1..Len(source)) \X (1..Len(source)) :
        /\ seg[1] >= 7
        /\ seg[1] <= seg[2]
        /\ seg[2] < Len(source)
        /\ SubSeq(source, seg[1] - 6, seg[1] - 1) = <<"/", "w", "o", "r", "k", "/">>
        /\ source[seg[2] + 1] = "/"
        /\ \A j \in seg[1]..seg[2] : source[j] # "/"}

\* The task of the first such segment.
WorkTask(source) ==
    LET first == CHOOSE seg \in WorkSegments(source) :
                     \A other \in WorkSegments(source) : seg[1] <= other[1]
    IN  SubSeq(source, first[1], first[2])

\* The last version of the instance's product has a source with a work
\* segment of another task than the instance's.
FromAnotherTask(i) ==
    \E k \in 1..Len(database) :
        /\ database[k].folderId = context[i].data.folderEntity.id
        /\ database[k].name = context[i].data.productName
        /\ ~database[k].version.isNone
        /\ database[k].version.hasSource
        /\ WorkSegments(database[k].version.source) # {}
        /\ WorkTask(database[k].version.source) # CurrentTask(i)

(* C26: process raises a validation error exactly when the validator is
   active, the instance's product has a last version whose source has a
   "/work/<task>/" segment, and that task is not the instance's task;
   otherwise it passes, and it never ends with a KeyError. *)
C26_RaisesIffFromAnotherTask ==
    (op \in {"process", "process_inactive"} /\ inst # 0) =>
        /\ raised \in {"none", "PublishValidationError"}
        /\ raised = "PublishValidationError" <=>
               (op = "process" /\ FromAnotherTask(inst))

C26_Witness ==
    /\ op = "process"
    /\ raised = "PublishValidationError"
    /\ context[inst].data.task = <<>>
    /\ Len(context) = 2

-----------------------------------------------------------------------------
(* create/create_render.py *)

\* create is called at most this many times.
MaxCreates == 3

\* self._get_singleton_node(): a node that carries the creator's identifier
_get_singleton_node(nodes) == nodes > 0

\* self.render_settings.get("apply_render_settings")
apply_render_settings(settings) ==
    IF DictHas(settings, "apply_render_settings")
    THEN DictGet(settings, "apply_render_settings") ELSE FALSE

\* super().create(...): makes the node that tells the creator to collect the
\* render layers.
RenderlayerCreator_create(nodes) == nodes + 1

\* Mutant: create does not look for the node first.
Render_create_unguarded(nodes, settings, applied) ==
    [raised |-> "none",
     nodes |-> RenderlayerCreator_create(nodes),
     applied |-> IF apply_render_settings(settings) THEN applied + 1
                 ELSE applied]

\* create(product_name, instance_data, pre_create_data)
Render_create(nodes, settings, applied) ==
    IF _get_singleton_node(nodes)
    THEN [raised |-> "CreatorError", nodes |-> nodes, applied |-> applied]
    ELSE [raised |-> "none",
          nodes |-> RenderlayerCreator_create(nodes),
          applied |-> IF apply_render_settings(settings) THEN applied + 1
                      ELSE applied]

CreateRenderlayer_create ==
    /\ creates < MaxCreates
    /\ creates' = creates + 1
    /\ \E r \in {Render_create(singletonNodes, render_settings, settingsApplied)} :
        /\ op' = "create"
        /\ raised' = r.raised
        /\ singletonNodes' = r.nodes
        /\ settingsApplied' = r.applied
    /\ UNCHANGED <<render_settings, layerRenderable, nodeActiveAttr, collected,
                   callData, returnedData>>
    /\ log' = <<>>
    /\ previousCall' = [op |-> op, data |-> callData]
    /\ UNCHANGED othersOfRender

\* The render instance is removed in the publisher: its node is deleted and
\* the layer's instance leaves the context.
RemoveRenderInstance ==
    /\ singletonNodes > 0
    /\ singletonNodes' = singletonNodes - 1
    /\ op' = "remove"
    /\ raised' = "none"
    /\ collected' = FALSE
    /\ UNCHANGED <<render_settings, settingsApplied, creates, layerRenderable,
                   nodeActiveAttr, callData, returnedData>>
    /\ log' = <<>>
    /\ previousCall' = [op |-> op, data |-> callData]
    /\ UNCHANGED othersOfRender

\* Instance data as far as the overrides go: whether it has the key "active"
\* and its value.
DataWithActive(value) == [hasActive |-> TRUE, active |-> value]
DataWithoutActive == [hasActive |-> FALSE, active |-> FALSE]

\* layer.setRenderable(data["active"]) under `if "active" in data`
\* Mutant: the layer is left as it is.
set_renderable_skipped(renderable, data) == renderable
set_renderable(renderable, data) ==
    IF data.hasActive THEN data.active ELSE renderable

\* read_instance_node_overrides(instance_node, layer, data)
read_instance_node_overrides(attr, renderable, data) ==
    LET layer == set_renderable(renderable, data)
    IN  [log |-> IF data.hasActive
                 THEN <<LogRecord("info", "Moving 'active' state from instance node", <<>>)>>
                 ELSE <<>>,
         renderable |-> layer,
         attr |-> IF data.hasActive /\ attr.hasActive THEN DataWithoutActive
                  ELSE attr,
         data |-> DataWithActive(layer)]

\* data.pop("active") under `if "active" in data`; return data
without_active(data) == DataWithoutActive

\* imprint_instance_node_data_overrides(data, instance)
imprint_instance_node_data_overrides(renderable, data) ==
    [renderable |-> set_renderable(renderable, data),
     data |-> without_active(data)]

\* The creator collects the layer: the data read from the instance node goes
\* through read_instance_node_overrides and the instance joins the context.
CreateRenderlayer_read_instance_node_overrides ==
    /\ singletonNodes > 0
    /\ \E r \in {read_instance_node_overrides(nodeActiveAttr, layerRenderable,
                                              nodeActiveAttr)} :
        /\ op' = "read_instance_node_overrides"
        /\ callData' = nodeActiveAttr
        /\ layerRenderable' = r.renderable
        /\ nodeActiveAttr' = r.attr
        /\ returnedData' = r.data
        /\ log' = r.log
    /\ collected' = TRUE
    /\ raised' = "none"
    /\ UNCHANGED <<singletonNodes, render_settings, settingsApplied, creates>>
    /\ previousCall' = [op |-> op, data |-> callData]
    /\ UNCHANGED othersOfRender

\* The creator saves a collected instance: its data goes through
\* imprint_instance_node_data_overrides and what is returned is written to
\* the instance node, key by key; an attribute that is not among the keys
\* stays on the node.
CreateRenderlayer_imprint_instance_node_data_overrides ==
    /\ collected
    /\ \E data \in {DataWithoutActive, DataWithActive(TRUE), DataWithActive(FALSE)} :
        \E r \in {imprint_instance_node_data_overrides(layerRenderable, data)} :
            /\ op' = "imprint_instance_node_data_overrides"
            /\ callData' = data
            /\ layerRenderable' = r.renderable
            /\ returnedData' = r.data
            /\ nodeActiveAttr' = IF r.data.hasActive THEN r.data ELSE nodeActiveAttr
    /\ raised' = "none"
    /\ log' = <<>>
    /\ UNCHANGED <<singletonNodes, render_settings, settingsApplied, creates,
                   collected>>
    /\ previousCall' = [op |-> op, data |-> callData]
    /\ UNCHANGED othersOfRender

\* The artist switches the layer's renderable state in Maya's render setup.
RenderSetupToggle ==
    /\ layerRenderable' = ~layerRenderable
    /\ op' = "toggle"
    /\ raised' = "none"
    /\ UNCHANGED <<singletonNodes, render_settings, settingsApplied, creates,
                   nodeActiveAttr, collected, callData, returnedData>>
    /\ log' = <<>>
    /\ previousCall' = [op |-> op, data |-> callData]
    /\ UNCHANGED othersOfRender

\* project_settings["maya"]["render_settings"] as apply_settings finds it
RenderSettings ==
    {<<>>, <<<<"apply_render_settings", TRUE>>>>,
     <<<<"apply_render_settings", FALSE>>>>}

\* A scene without render instance, or one saved with a render instance that
\* has the active state on the instance node (before it moved to the layer)
\* or not.
InitRender ==
    /\ cbId = <<>>
    /\ context = <<>>
    /\ lastPublish = NoPublish
    /\ op = "init"
    /\ inst = 0
    /\ log = <<>>
    /\ yielded = <<>>
    /\ invalid = <<>>
    /\ node_by_path = <<>>
    /\ edits = <<>>
    /\ relevant_edits = {}
    /\ requests = <<>>
    /\ NoAnimation
    /\ NoUnknown
    /\ NoLastVersion
    /\ singletonNodes \in {0, 1}
    /\ render_settings \in RenderSettings
    /\ settingsApplied = 0
    /\ creates = 0
    /\ layerRenderable \in BOOLEAN
    /\ nodeActiveAttr \in {DataWithoutActive, DataWithActive(TRUE), DataWithActive(FALSE)}
    /\ singletonNodes = 0 => nodeActiveAttr = DataWithoutActive
    /\ collected = FALSE
    /\ callData = DataWithoutActive
    /\ returnedData = DataWithoutActive
    /\ previousCall = [op |-> "init", data |-> DataWithoutActive]
    /\ NoAutoTx
    /\ NoProxy
    /\ NoLayout
    /\ raised = "none"

NextRender ==
    \/ CreateRenderlayer_create
    \/ RemoveRenderInstance
    \/ CreateRenderlayer_read_instance_node_overrides
    \/ CreateRenderlayer_imprint_instance_node_data_overrides
    \/ RenderSetupToggle

SpecRender == InitRender /\ [][NextRender]_vars

-----------------------------------------------------------------------------
(* C22: only one render instance can exist: whatever create calls are made
   there is at most one render singleton node, and a create call made while
   the node exists raises CreatorError, creates no node and does not apply
   the default project render settings. *)
C22_SingleRenderInstance ==
    [][/\ singletonNodes' <= 1
       /\ (creates' # creates /\ singletonNodes > 0) =>
              /\ raised' = "CreatorError"
              /\ singletonNodes' = singletonNodes
              /\ settingsApplied' = settingsApplied]_vars

\* A second create is refused after a first that applied the settings.
C22_Witness ==
    /\ op = "create"
    /\ raised = "CreatorError"
    /\ creates = 2
    /\ singletonNodes = 1
    /\ apply_render_settings(render_settings)
    /\ settingsApplied = 1

ImprintedActive ==
    /\ op = "imprint_instance_node_data_overrides"
    /\ callData.hasActive

(* C27: the active state of a render layer instance is on the render setup
   layer, never on the instance node: imprint_instance_node_data_overrides
   with an "active" value sets the layer's renderable state to it and
   returns data without the key; a read_instance_node_overrides that follows
   returns data whose "active" is that value; an "active" value found on the
   instance node is copied to the layer and deleted from the node. *)
C27_ActiveLivesOnLayer ==
    /\ ImprintedActive =>
           /\ layerRenderable = callData.active
           /\ ~returnedData.hasActive
           /\ ~nodeActiveAttr.hasActive
    /\ (/\ op = "read_instance_node_overrides"
        /\ previousCall.op = "imprint_instance_node_data_overrides"
        /\ previousCall.data.hasActive) =>
           returnedData = DataWithActive(previousCall.data.active)
    /\ (op = "read_instance_node_overrides" /\ callData.hasActive) =>
           /\ layerRenderable = callData.active
           /\ ~nodeActiveAttr.hasActive
           /\ returnedData = DataWithActive(callData.active)

\* The instance is switched off on save and read back as switched off.
C27_Witness ==
    /\ op = "read_instance_node_overrides"
    /\ previousCall.op = "imprint_instance_node_data_overrides"
    /\ previousCall.data = DataWithActive(FALSE)
    /\ returnedData = DataWithActive(FALSE)

-----------------------------------------------------------------------------
(* publish/validate_render_arnold_auto_tx.py *)

\* The render setup layers of the scene.
RenderLayers == {"defaultRenderLayer", "rs_A", "rs_B"}

\* The value of the plug in a layer: that of the layer's override when it
\* has one, else the value of the plug itself.
value_in_layer(value, overrides, layer) ==
    IF overrides[layer] = "none" THEN value ELSE overrides[layer] = "on"

\* get_attr_in_layer(plug, layer=layer)
get_attr_in_layer(value, overrides, layer) == value_in_layer(value, overrides, layer)

\* cmds.getAttr(plug): the value in the visible layer
getAttr(value, overrides, current) == value_in_layer(value, overrides, current)

\* cmds.setAttr(plug, False): sets the plug; a plug that the visible layer
\* overrides is driven by the override, and Maya either refuses the edit or
\* passes it on to the override.
setAttr_False(value, overrides, current, refused) ==
    IF overrides[current] = "none"
    THEN [raised |-> "none", value |-> FALSE, overrides |-> overrides]
    ELSE IF refused
         THEN [raised |-> "RuntimeError", value |-> value, overrides |-> overrides]
         ELSE [raised |-> "none", value |-> value,
               overrides |-> [overrides EXCEPT ![current] = "off"]]

\* process(instance) of ValidateRenderArnoldAutoTx
AutoTx_process(instance, value, overrides) ==
    LET renderer == instance.data.renderer
        layer == instance.data.setMembers
    IN  IF renderer # "arnold"
        THEN [raised |-> "none",
              log |-> <<LogRecord("debug",
                            "Skipping auto-convert textures validation", renderer)>>]
        ELSE IF get_attr_in_layer(value, overrides, layer)
             THEN [raised |-> "PublishValidationError", log |-> <<>>]
             ELSE [raised |-> "none", log |-> <<>>]

\* repair(instance) of ValidateRenderArnoldAutoTx
AutoTx_repair(value, overrides, current, refused) ==
    IF getAttr(value, overrides, current)
    THEN LET r == setAttr_False(value, overrides, current, refused)
         IN  [raised |-> r.raised, value |-> r.value, overrides |-> r.overrides,
              log |-> <<LogRecord("info", "Disabling",
                                  "defaultArnoldRenderOptions.autotx")>>]
    ELSE [raised |-> "none", value |-> value, overrides |-> overrides,
          log |-> <<>>]

ValidateRenderArnoldAutoTx_process ==
    \E i \in 1..Len(context) :
        /\ \E r \in {AutoTx_process(context[i], autotx, autotxOverride)} :
            /\ op' = "process"
            /\ inst' = i
            /\ log' = r.log
            /\ raised' = r.raised
        /\ UNCHANGED <<autotx, autotxOverride, currentLayer>>
        /\ UNCHANGED othersOfAutoTx

ValidateRenderArnoldAutoTx_repair ==
    \E i \in 1..Len(context), refused \in BOOLEAN :
        /\ \E r \in {AutoTx_repair(autotx, autotxOverride, currentLayer, refused)} :
            /\ op' = "repair"
            /\ inst' = i
            /\ log' = r.log
            /\ raised' = r.raised
            /\ autotx' = r.value
            /\ autotxOverride' = r.overrides
        /\ UNCHANGED currentLayer
        /\ UNCHANGED othersOfAutoTx

\* A render layer instance: its renderer and its layer.
RenderInstance(renderer, layer) ==
    [data |-> [renderer |-> renderer, setMembers |-> layer]]

\* One instance for each layer of the render setup, rendered by Arnold or by
\* Redshift; the default layer has no overrides.
InitAutoTx ==
    /\ cbId = <<>>
    /\ context \in {<<RenderInstance(r1, "rs_A"), RenderInstance(r2, "rs_B"),
                      RenderInstance("arnold", "defaultRenderLayer")>> :
                    r1 \in {"arnold", "redshift"}, r2 \in {"arnold", "redshift"}}
    /\ lastPublish = NoPublish
    /\ op = "init"
    /\ inst = 0
    /\ log = <<>>
    /\ yielded = <<>>
    /\ invalid = <<>>
    /\ node_by_path = <<>>
    /\ edits = <<>>
    /\ relevant_edits = {}
    /\ requests = <<>>
    /\ NoAnimation
    /\ NoUnknown
    /\ NoLastVersion
    /\ NoRender
    /\ autotx \in BOOLEAN
    /\ autotxOverride \in [RenderLayers -> {"none", "on", "off"}]
    /\ autotxOverride["defaultRenderLayer"] = "none"
    /\ currentLayer \in RenderLayers
    /\ NoProxy
    /\ NoLayout
    /\ raised = "none"

NextAutoTx ==
    \/ ValidateRenderArnoldAutoTx_process
    \/ ValidateRenderArnoldAutoTx_repair

SpecAutoTx == InitAutoTx /\ [][NextAutoTx]_vars

\* process on the instance would raise.
AutoTxFails(i, value, overrides) ==
    AutoTx_process(context[i], value, overrides).raised = "PublishValidationError"

(* C23: repair disables the Arnold auto-tx setting: after repair on an
   instance whose validation failed, process on the same instance no longer
   raises - the autotx value read for the instance's layer is false. *)
C23_RepairDisablesAutoTx ==
    [][(op' = "repair" /\ AutoTxFails(inst', autotx, autotxOverride)) =>
           /\ ~AutoTxFails(inst', autotx', autotxOverride')
           /\ ~get_attr_in_layer(autotx', autotxOverride',
                                 context[inst'].data.setMembers)]_vars

\* What does hold: repair of an instance whose layer is the visible one and
\* carries no override of the plug.
C23_RepairDisablesInVisibleLayer ==
    [][(/\ op' = "repair"
        /\ AutoTxFails(inst', autotx, autotxOverride)
        /\ context[inst'].data.setMembers = currentLayer
        /\ autotxOverride[currentLayer] = "none") =>
           ~AutoTxFails(inst', autotx', autotxOverride')]_vars

-----------------------------------------------------------------------------
(* load/load_redshift_proxy.py *)

\* The names the module binds at import: those of the import statements and
\* the class.
module_globals ==
    {"os", "clique", "cmds", "get_representation_path", "get_project_settings",
     "plugin", "namespaced", "maintained_selection", "unique_namespace",
     "get_container_transforms", "get_node_parent", "containerise",
     "get_load_color_for_product_type", "RedshiftProxyLoader"}

\* A container: its name, namespace and loader, the representation and file
\* it shows, whether it holds a RedshiftProxyMesh, and whether its root is
\* under the parent group.
Container(name, namespace, loader, representation, fileName, rs_meshes, parented) ==
    [name |-> name, namespace |-> namespace, loader |-> loader,
     representation |-> representation, fileName |-> fileName,
     rs_meshes |-> rs_meshes, parented |-> parented]

\* The parent group: whether it exists, its world matrix and outliner
\* colour, and whether it is a member of the container.
ParentGroup(exists, matrix, color, member) ==
    [exists |-> exists, matrix |-> matrix, color |-> color, member |-> member]

\* update(container, context)
Proxy_update(old, ctx) ==
    IF ~old.rs_meshes
    THEN [raised |-> "AssertionError", container |-> old]
    ELSE [raised |-> "none",
          container |-> [old EXCEPT !.fileName = ctx.path,
                                    !.representation = ctx.id]]

\* load.remove_container(container): the container goes with its members.
remove_container(parent) ==
    IF parent.member THEN [parent EXCEPT !.exists = FALSE] ELSE parent

\* self.load(context, name=container["name"], namespace=container["namespace"])
Proxy_load(ctx, name, namespace) ==
    Container(name, namespace, "RedshiftProxyLoader", ctx.id, ctx.path, TRUE, FALSE)

\* Lines 159-171: the parent is made anew when it is gone, and the new root
\* is put under it.
reparent(new_container, parent, parent_before, had_parent) ==
    IF ~had_parent THEN [container |-> new_container, parent |-> parent]
    ELSE [container |-> [new_container EXCEPT !.parented = TRUE],
          parent |-> IF parent.exists THEN parent
                     ELSE ParentGroup(TRUE, parent_before.matrix,
                                      parent_before.color, FALSE)]

\* switch(container, context) with the given names bound in the module
Proxy_switch(old, parent, ctx, bound) ==
    IF old.loader = "RedshiftProxyLoader"
    THEN LET r == Proxy_update(old, ctx)
         IN  [raised |-> r.raised, container |-> r.container, parent |-> parent,
              log |-> <<>>]
    ELSE LET logged == <<LogRecord("info", "Switching from different loader", old.loader),
                         LogRecord("info", "Found existing root", old.name)>>
                       \o (IF old.parented
                           THEN <<LogRecord("info", "Found previous root parent", <<>>)>>
                           ELSE <<>>)
         IN  IF "load" \notin bound
             THEN [raised |-> "NameError", container |-> old, parent |-> parent,
                   log |-> logged]
             ELSE LET removed == remove_container(parent)
                      r == reparent(Proxy_load(ctx, old.name, old.namespace),
                                    removed, parent, old.parented)
                  IN  [raised |-> "none", container |-> r.container,
                       parent |-> r.parent,
                       log |-> logged \o
                           (IF old.parented /\ ~removed.exists
                            THEN <<LogRecord("info", "Recreating parent", <<>>)>>
                            ELSE <<>>)]

\* The representations to update or switch to.
Representation(id, path) == [id |-> id, path |-> path]
LoadContexts == {Representation(1, "v001.rs"), Representation(2, "v002.rs")}

RedshiftProxyLoader_update ==
    \E ctx \in LoadContexts :
        /\ \E r \in {Proxy_update(container, ctx)} :
            /\ raised' = r.raised
            /\ container' = r.container
        /\ op' = "update"
        /\ log' = <<>>
        /\ loadContext' = ctx
        /\ UNCHANGED rootParent
        /\ UNCHANGED othersOfProxy

RedshiftProxyLoader_switch ==
    \E ctx \in LoadContexts :
        /\ \E r \in {Proxy_switch(container, rootParent, ctx, module_globals)} :
            /\ raised' = r.raised
            /\ container' = r.container
            /\ rootParent' = r.parent
            /\ log' = r.log
        /\ op' = "switch"
        /\ loadContext' = ctx
        /\ UNCHANGED othersOfProxy

\* A container of this loader or of the reference loader, at the scene root
\* or under a parent group that is a member of the container or not.
ProxyScenes ==
    {<<Container("hero", "hero_01_", loader, rep.id, rep.path,
                 rs_meshes, parented),
       ParentGroup(TRUE, matrix, color, member)>> :
        loader \in {"RedshiftProxyLoader", "ReferenceLoader"},
        rep \in LoadContexts,
        rs_meshes \in BOOLEAN, parented \in BOOLEAN,
        matrix \in {"identity", "moved"}, color \in {"none", "orange"},
        member \in BOOLEAN}

InitProxy ==
    /\ cbId = <<>>
    /\ context = <<>>
    /\ lastPublish = NoPublish
    /\ op = "init"
    /\ inst = 0
    /\ log = <<>>
    /\ yielded = <<>>
    /\ invalid = <<>>
    /\ node_by_path = <<>>
    /\ edits = <<>>
    /\ relevant_edits = {}
    /\ requests = <<>>
    /\ NoAnimation
    /\ NoUnknown
    /\ NoLastVersion
    /\ NoRender
    /\ NoAutoTx
    /\ \E scene \in ProxyScenes :
        /\ scene[1].loader = "ReferenceLoader" => ~scene[1].rs_meshes
        /\ scene[2].member => scene[1].parented
        /\ container = scene[1]
        /\ rootParent = scene[2]
    /\ loadContext = Representation(0, "")
    /\ NoLayout
    /\ raised = "none"

NextProxy ==
    \/ RedshiftProxyLoader_update
    \/ RedshiftProxyLoader_switch

SpecProxy == InitProxy /\ [][NextProxy]_vars

(* C28: switch on a container of another loader removes the original
   container and loads a Redshift proxy with its name and namespace, under
   the original root's parent, which is made anew with its world matrix and
   outliner colour when it went with the original container; on a container
   of this loader switch does what update does. *)
C28_SwitchReplacesOrUpdates ==
    [][op' = "switch" =>
        IF container.loader = "RedshiftProxyLoader"
        THEN /\ container' = Proxy_update(container, loadContext').container
             /\ raised' = Proxy_update(container, loadContext').raised
             /\ rootParent' = rootParent
        ELSE /\ raised' = "none"
             /\ container' = Container(container.name, container.namespace,
                                       "RedshiftProxyLoader", loadContext'.id,
                                       loadContext'.path, TRUE, container.parented)
             /\ container.parented =>
                    /\ rootParent'.exists
                    /\ rootParent'.matrix = rootParent.matrix
                    /\ rootParent'.color = rootParent.color]_vars

\* What does hold: switch on a container of this loader is update, and on a
\* container of another loader it ends with a NameError and changes nothing.
C28_SwitchUpdatesOrFails ==
    [][op' = "switch" =>
        IF container.loader = "RedshiftProxyLoader"
        THEN /\ container' = Proxy_update(container, loadContext').container
             /\ raised' = Proxy_update(container, loadContext').raised
             /\ rootParent' = rootParent
        ELSE /\ raised' = "NameError"
             /\ container' = container
             /\ rootParent' = rootParent]_vars

-----------------------------------------------------------------------------
(* publish/extract_layout.py *)

\* The extractor runs at most this many times on the instance.
MaxExtracts == 2

\* The members of the layout set: two loaded assets and a group that no
\* loader made.
AssetA == <<"a", ":", "g", "r", "p">>
AssetB == <<"b", ":", "g", "r", "p">>
Loose == <<"l", "o", "o", "s", "e">>

ContainerA == <<"a", "_", "C", "O", "N">>
ContainerB == <<"b", "_", "C", "O", "N">>

\* cmds.sets(str(instance), query=True): None for a set without members
sets_query_is_None(members) == members = <<>>

\* cmds.listRelatives(asset, children=True): None for a node without children
listRelatives_children(asset) ==
    IF asset = AssetA THEN <<<<"a", ":", "g", "e", "o">>>>
    ELSE IF asset = AssetB THEN <<<<"b", ":", "g", "e", "o">>>>
    ELSE <<>>

\* cmds.ls("{}*_CON".format(grp_name))
ls_containers(scene, grp_name) ==
    SelectSeq(scene.containers,
              LAMBDA c : /\ Len(grp_name) <= Len(c)
                         /\ SubSeq(c, 1, Len(grp_name)) = grp_name
                         /\ StrEndsWith(c, <<"_", "C", "O", "N">>))

\* cmds.getAttr("{}.representation".format(container))
container_representation(node) == IF node = ContainerA THEN 1 ELSE 2

\* One turn of the loop of process for a member: what is logged, the element
\* added to json_data if any, whether lines 105-106 are reached, and the
\* exception if one ends it.  The transform matrix is left out of the element.
layout_element(scene, grouped, member) ==
    LET children == listRelatives_children(member)
        asset == IF grouped /\ children # <<>> THEN children[Len(children)]
                 ELSE member
        grp_name == StrSplit(asset, ":")[1]
        containers == ls_containers(scene, grp_name)
        representation_id == container_representation(containers[1])
        turn(logged, element, reached, exc) ==
            [log |-> logged, element |-> element, reached |-> reached,
             raised |-> exc]
    IN  IF ~scene.project_container
        THEN turn(<<LogRecord("warning", "Project container is not found!", <<>>),
                    LogRecord("warning",
                        "The asset(s) may not be properly loaded after published",
                        <<>>)>>, <<>>, FALSE, "none")
        ELSE IF grouped /\ children = <<>>
        THEN turn(<<>>, <<>>, FALSE, "TypeError")
        ELSE IF containers = <<>>
        THEN turn(<<LogRecord("warning", "isn't from the loader", asset),
                    LogRecord("warning",
                        "It may not be properly loaded after published", <<>>)>>,
                  <<>>, FALSE, "none")
        ELSE IF representation_id \notin scene.representations
        THEN turn(<<LogRecord("debug", "representation", "None")>>,
                  <<>>, FALSE, "TypeError")
        ELSE turn(<<LogRecord("debug", "representation", representation_id)>>,
                  <<[instance_name |-> grp_name,
                     representation |-> representation_id]>>,
                  TRUE, "none")

\* The loop of process from the k-th member on.
RECURSIVE layout_loop(_, _, _, _, _)
layout_loop(scene, grouped, members, k, acc) ==
    IF k > Len(members) \/ acc.raised # "none" THEN acc
    ELSE LET t == layout_element(scene, grouped, members[k])
         IN  layout_loop(scene, grouped, members, k + 1,
                 [log |-> acc.log \o t.log,
                  json_data |-> acc.json_data \o t.element,
                  json_path_bound |-> acc.json_path_bound \/ t.reached,
                  raised |-> t.raised])

\* json_filename and json_path are local names that only lines 105-106 bind.
json_path_bound_at_start == FALSE

\* process(instance) of ExtractLayout: the instance's representations, the
\* file written if any, the log and the exception if one ends it.
Layout_process(instance, scene) ==
    LET representations ==
            IF instance.data.hasRepresentations THEN instance.data.representations
            ELSE <<>>
        start == <<LogRecord("debug", "Performing extraction..", <<>>)>>
        r == layout_loop(scene, instance.data.groupLoadedAssets,
                         instance.members, 1,
                         [log |-> start, json_data |-> <<>>,
                          json_path_bound |-> json_path_bound_at_start,
                          raised |-> "none"])
        json_filename == instance.name \o <<".", "j", "s", "o", "n">>
        failed(logged, exc) ==
            [representations |-> representations, written |-> <<>>,
             log |-> logged, raised |-> exc]
    IN  IF sets_query_is_None(instance.members) THEN failed(start, "TypeError")
        ELSE IF r.raised # "none" THEN failed(r.log, r.raised)
        ELSE IF ~r.json_path_bound THEN failed(r.log, "UnboundLocalError")
        ELSE [representations |->
                  Append(representations,
                         [name |-> "json", ext |-> "json", files |-> json_filename]),
              written |-> <<[path |-> json_filename, data |-> r.json_data]>>,
              log |-> Append(r.log, LogRecord("debug", "Extracted instance",
                                              instance.name)),
              raised |-> "none"]

ExtractLayout_process ==
    \E i \in 1..Len(context) :
        /\ Len(files) < MaxExtracts
        /\ \E r \in {Layout_process(context[i], layoutScene)} :
            /\ context' = [context EXCEPT ![i].data.hasRepresentations = TRUE,
                                          ![i].data.representations = r.representations]
            /\ files' = files \o r.written
            /\ log' = r.log
            /\ raised' = r.raised
        /\ op' = "process"
        /\ inst' = i
        /\ UNCHANGED layoutScene
        /\ UNCHANGED othersOfLayout

\* The layout set holds any of the three groups, in this order.
LayoutMembers ==
    {SelectSeq(<<AssetA, Loose, AssetB>>, LAMBDA n : n \in m) :
     m \in SUBSET {AssetA, Loose, AssetB}}

LayoutInstance(members, grouped, hasRepresentations, representations) ==
    [name |-> <<"l", "a", "y", "o", "u", "t", "M", "a", "i", "n">>,
     members |-> members,
     data |-> [groupLoadedAssets |-> grouped,
               hasRepresentations |-> hasRepresentations,
               representations |-> representations]]

LayoutScenes ==
    [project_container : BOOLEAN,
     containers : {<<>>, <<ContainerA>>, <<ContainerB>>, <<ContainerA, ContainerB>>},
     representations : SUBSET {1, 2}]

InitLayout ==
    /\ cbId = <<>>
    /\ context \in {<<LayoutInstance(members, grouped, has, reps)>> :
                    members \in LayoutMembers, grouped \in BOOLEAN,
                    has \in BOOLEAN,
                    reps \in {<<>>, <<[name |-> "ma", ext |-> "ma",
                                       files |-> <<"l", ".", "m", "a">>]>>}}
    /\ ~context[1].data.hasRepresentations => context[1].data.representations = <<>>
    /\ lastPublish = NoPublish
    /\ op = "init"
    /\ inst = 0
    /\ log = <<>>
    /\ yielded = <<>>
    /\ invalid = <<>>
    /\ node_by_path = <<>>
    /\ edits = <<>>
    /\ relevant_edits = {}
    /\ requests = <<>>
    /\ NoAnimation
    /\ NoUnknown
    /\ NoLastVersion
    /\ NoRender
    /\ NoAutoTx
    /\ NoProxy
    /\ layoutScene \in LayoutScenes
    /\ files = <<>>
    /\ raised = "none"

NextLayout == ExtractLayout_process

SpecLayout == InitLayout /\ [][NextLayout]_vars

\* The representations of the instance, none when the key is not there.
RepresentationsOf(instance) ==
    IF instance.data.hasRepresentations THEN instance.data.representations
    ELSE <<>>

(* C29: process always ends by writing the layout JSON file and adding one
   "json" representation to instance.data["representations"], for every
   instance: also one whose set has no members, whose scene has no project
   container, or whose members are all skipped. *)
C29_AlwaysWritesOneRepresentation ==
    [][op' = "process" =>
        /\ raised' = "none"
        /\ Len(files') = Len(files) + 1
        /\ Len(RepresentationsOf(context'[inst'])) =
               Len(RepresentationsOf(context[inst'])) + 1
        /\ RepresentationsOf(context'[inst'])[Len(RepresentationsOf(context'[inst']))].name
               = "json"]_vars

\* What does hold: the file is written and the representation added exactly
\* when the loop ran to its end for at least one member; otherwise process
\* ends with an exception and adds nothing.
C29_WritesOnlyWhenAMemberIsExported ==
    [][op' = "process" =>
        IF raised' = "none"
        THEN /\ Len(files') = Len(files) + 1
             /\ files'[Len(files')].data # <<>>
             /\ Len(RepresentationsOf(context'[inst'])) =
                    Len(RepresentationsOf(context[inst'])) + 1
        ELSE /\ files' = files
             /\ RepresentationsOf(context'[inst']) = RepresentationsOf(context[inst'])
             /\ raised' \in {"TypeError", "UnboundLocalError"}]_vars

====
